---- MODULE Spec2Model ----
(***************************************************************************)
(* A model of the Telegram userbot of src/self2.py (and its predecessor    *)
(* src/self.py): the two deferred-delivery polling loops, the AFK          *)
(* subsystem, command dispatch, the warning store, and the handlers and    *)
(* helpers of purge, calc, durations, the admin gate, target lookup, gban, *)
(* ban and mute, remind and scheduled, and the chat settings.              *)
(*                                                                         *)
(* Each subsystem has its own specification (SpecDelivery, SpecAfk, ...);  *)
(* the variables of the other subsystems stay at their initial values      *)
(* there.                                                                  *)
(***************************************************************************)
EXTENDS Integers, Sequences, FiniteSets, TLC

VARIABLES
    \* ---- deferred delivery (self2.py 4195-4286) ----
    utcnow,      \* datetime.utcnow(), in abstract time units
    remDb,       \* committed Reminder rows: id -> [is_active, remind_time, message_id]
    remPc,       \* reminder_task: "sleep" (awaiting asyncio.sleep) or "loop" (inside the for loop)
    remTodo,     \* due_reminders not yet iterated in the current poll cycle
    remSess,     \* rows whose is_active = False is pending in the cycle's Session
    remCycles,   \* poll cycles of reminder_task started so far
    remSent,     \* history: id -> number of successful send_message calls
    remFailed,   \* history: rows whose attempt failed, not with Forbidden, in the current cycle
    remOwed,     \* history: rows that failed so in the last finished cycle, not attempted since
    remMissed,   \* history: a cycle ended with an owed row unattempted or a failed row delivered
    schDb,       \* committed ScheduledMessage rows: id -> [is_sent, send_time]
    schPc, schTodo, schSess, schCycles, schSent, schFailed, schOwed, schMissed,
    \* ---- AFK subsystem (self2.py 116-122, 191-198, 698-788) ----
    AFK_STATUS,       \* the in-memory dict: is_afk, reason, start_time, last_afk_message_time
    loopTime,         \* asyncio.get_event_loop().time(), in seconds
    afkRow,           \* the committed AFKState row written under user_id = client.me.id
    afkInflight,      \* afk_command_handler invocations suspended at `await message.edit`
    afkCmds,          \* .afk commands dispatched so far
    lastToggle,       \* history: "none", "on" or "off" while the last step was an .afk toggle
    winStart,         \* history: counterpart -> time of the first qualifying message of its window
    winReplies,       \* history: counterpart -> reply_text calls since winStart
    winMsgs,          \* history: counterpart -> qualifying messages since winStart (2: two or more)
    winCount,         \* history: counterpart -> windows begun since AFK became Active
    lastReply,        \* history: counterpart -> time of the last auto-reply since the process started
    periodLast,       \* history: the same, since the last .afk toggle or restart
    closeAny,         \* history: two auto-replies to one counterpart were < cooldown apart
    closeSamePeriod,  \* history: the same, with no .afk toggle or restart between the two
    \* ---- command dispatch (the @app.on_message registrations of self2.py) ----
    dMsg,             \* the message dispatched last
    dRan,             \* the handler the dispatcher ran for it, or "none"
    \* ---- warnings (self2.py 172-178, 3093-3183) ----
    warnings,         \* the committed Warning rows: [id, user_id, chat_id, timestamp]
    wClock,           \* datetime.utcnow() of the next warning
    wBefore,          \* history: the rows before the last warn or unwarn command
    wOp,              \* history: the last command: kind, target user, chat, gate passed
    \* ---- purge (self2.py 640-693) ----
    pMsg,             \* the .purge command received: chat, reply, argument, outcomes
    pDone,            \* the handler has run for it
    pCalls,           \* history: the id lists passed to client.delete_messages by it
    pEdits,           \* history: message.edit calls made for it (gate and handler)
    pSends,           \* history: client.send_message calls made for it
    \* ---- calc (self2.py 599-635) ----
    cExpr,            \* the argument of the .calc command received, a sequence of characters
    cDone,            \* the handler has run for it
    cEval,            \* history: the strings passed to eval() by it
    cReply,           \* history: the edit it made: kind of reply and, for a result, its value
    \* ---- parse_time_duration (self2.py 2352-2377) ----
    durStr,           \* the argument duration_str, a sequence of characters
    durDone,          \* the function has returned
    durResult,        \* its result in seconds, or NoDuration for None
    \* ---- require_admin_rights (self2.py 324-366) ----
    gMsg,             \* the command received by a wrapped handler: chat type, required
                      \* capabilities, the account's capabilities, outcome of get_chat_member
    gDone,            \* the wrapper has returned
    gInvoked,         \* history: calls of the wrapped handler made by the wrapper
    gReplies,         \* history: message.edit calls made by the wrapper itself
    \* ---- error handling of command handlers (self2.py 472-505, 2379-2467) ----
    hCmd,             \* the command received: handler, number of words, outcomes of its calls
    hDone,            \* the handler has finished
    hEscaped,         \* history: an exception left the handler
    hFailed,          \* history: a step of the handler failed
    hFailureMsgs,     \* history: edits/sends the handler made to report a failure
    \* ---- concurrent afk_reply_handler invocations (self2.py 748-788) ----
    arTime,           \* asyncio.get_event_loop().time(), in seconds
    arLast,           \* AFK_STATUS["last_afk_message_time"] while AFK stays Active
    arFrom,           \* handler -> message.from_user.id of its message
    arPc,             \* handler -> "new", "reply_text" (suspended at the await) or "done"
    arStart,          \* history: handler -> current_time it read, or NoTime
    arPassed,         \* history: handler -> it passed the cooldown check
    arOverlap,        \* history: pairs <<h, g>>: h ran its check while g was suspended
    arSent,           \* history: handler -> its reply_text returned
    \* ---- get_target_user_id (self2.py 385-401) ----
    tgMsg,            \* the command message: its reply, its first argument, outcome of get_users
    tgDone,           \* the function has finished
    tgResult,         \* how it finished: an id, None, or an exception raised to the caller
    \* ---- gban (self2.py 425-441, 3244-3303) ----
    gbCmd,            \* the .gban command: its chat, the dialogs of the account, outcomes
    gbDone,           \* the handler has finished
    gbBlacklist,      \* the target has a committed UserSetting row with key gban_status
    gbAttempts,       \* history: the dialogs for which client.ban_chat_member was called
    gbFailed,         \* history: the handler ended in its `except Exception` block
    \* ---- ban and mute (self2.py 2563-2627, 2698-2762) ----
    rsCmd,            \* the command past the gate: handler, how the target is given, the
                      \* tokens after it, utcnow, outcome of the transport call
    rsDone,           \* the handler has finished
    rsCall,           \* history: the ban_chat_member / restrict_chat_member call it made
    rsReason,         \* history: reason_parts at the time of the call
    rsReport,         \* history: the edit that ended it: "success", "error" or "none"
    rsEscaped,        \* history: an exception left the handler
    \* ---- remind and scheduled (self2.py 2379-2420, 3789-3829) ----
    crCmd,            \* the command: handler, number of words, duration word, text, utcnow
    crDone,           \* the handler has finished
    crRows,           \* the rows it committed to its table
    crEdits,          \* history: the kinds of message.edit calls it made
    crEscaped,        \* history: an exception left the handler
    \* ---- process termination (self2.py 989-1005, 4296-4325) ----
    stops,            \* times the process has stopped and started again during a poll cycle
    \* ---- chat settings (self2.py 143-147, 3384-3422, 3488-3522, 3555-3606) ----
    csType,           \* chat -> message.chat.type of the messages of that chat
    csRows,           \* the committed ChatSetting rows, in the order of their ids
    csInflight,       \* handler invocations that have been dispatched and have not returned
    csCmds,           \* settings commands dispatched so far
    csLast            \* history: (chat, key) -> value and number of the committed writes

deliveryVars == <<utcnow, remDb, remPc, remTodo, remSess, remCycles, remSent,
                  remFailed, remOwed, remMissed,
                  schDb, schPc, schTodo, schSess, schCycles, schSent,
                  schFailed, schOwed, schMissed>>

afkVars == <<AFK_STATUS, loopTime, afkRow, afkInflight, afkCmds, lastToggle,
             winStart, winReplies, winMsgs, winCount, lastReply, periodLast, closeAny, closeSamePeriod>>

dispatchVars == <<dMsg, dRan>>

warnVars == <<warnings, wClock, wBefore, wOp>>

purgeVars == <<pMsg, pDone, pCalls, pEdits, pSends>>

calcVars == <<cExpr, cDone, cEval, cReply>>

durationVars == <<durStr, durDone, durResult>>

gateVars == <<gMsg, gDone, gInvoked, gReplies>>

handlerVars == <<hCmd, hDone, hEscaped, hFailed, hFailureMsgs>>

raceVars == <<arTime, arLast, arFrom, arPc, arStart, arPassed, arOverlap, arSent>>

targetVars == <<tgMsg, tgDone, tgResult>>

gbanVars == <<gbCmd, gbDone, gbBlacklist, gbAttempts, gbFailed>>

restrictVars == <<rsCmd, rsDone, rsCall, rsReason, rsReport, rsEscaped>>

createVars == <<crCmd, crDone, crRows, crEdits, crEscaped>>

stopVars == <<stops>>

settingsVars == <<csType, csRows, csInflight, csCmds, csLast>>

vars == <<deliveryVars, afkVars, dispatchVars, warnVars, purgeVars, calcVars, durationVars, gateVars, handlerVars, raceVars, targetVars, gbanVars, restrictVars, createVars, stopVars, settingsVars>>

otherThanDelivery == <<afkVars, dispatchVars, warnVars, purgeVars, calcVars, durationVars, gateVars, handlerVars, raceVars, targetVars, gbanVars, restrictVars, createVars, stopVars, settingsVars>>
otherThanAfk == <<deliveryVars, dispatchVars, warnVars, purgeVars, calcVars, durationVars, gateVars, handlerVars, raceVars, targetVars, gbanVars, restrictVars, createVars, stopVars, settingsVars>>
otherThanDispatch == <<deliveryVars, afkVars, warnVars, purgeVars, calcVars, durationVars, gateVars, handlerVars, raceVars, targetVars, gbanVars, restrictVars, createVars, stopVars, settingsVars>>
otherThanWarn == <<deliveryVars, afkVars, dispatchVars, purgeVars, calcVars, durationVars, gateVars, handlerVars, raceVars, targetVars, gbanVars, restrictVars, createVars, stopVars, settingsVars>>
otherThanPurge == <<deliveryVars, afkVars, dispatchVars, warnVars, calcVars, durationVars, gateVars, handlerVars, raceVars, targetVars, gbanVars, restrictVars, createVars, stopVars, settingsVars>>
otherThanCalc == <<deliveryVars, afkVars, dispatchVars, warnVars, purgeVars, durationVars, gateVars, handlerVars, raceVars, targetVars, gbanVars, restrictVars, createVars, stopVars, settingsVars>>
otherThanDuration == <<deliveryVars, afkVars, dispatchVars, warnVars, purgeVars, calcVars, gateVars, handlerVars, raceVars, targetVars, gbanVars, restrictVars, createVars, stopVars, settingsVars>>
otherThanGate == <<deliveryVars, afkVars, dispatchVars, warnVars, purgeVars, calcVars, durationVars, handlerVars, raceVars, targetVars, gbanVars, restrictVars, createVars, stopVars, settingsVars>>
otherThanHandler == <<deliveryVars, afkVars, dispatchVars, warnVars, purgeVars, calcVars, durationVars, gateVars, raceVars, targetVars, gbanVars, restrictVars, createVars, stopVars, settingsVars>>
otherThanRace == <<deliveryVars, afkVars, dispatchVars, warnVars, purgeVars, calcVars, durationVars, gateVars, handlerVars, targetVars, gbanVars, restrictVars, createVars, stopVars, settingsVars>>
otherThanTarget == <<deliveryVars, afkVars, dispatchVars, warnVars, purgeVars, calcVars, durationVars, gateVars, handlerVars, raceVars, gbanVars, restrictVars, createVars, stopVars, settingsVars>>
otherThanGban == <<deliveryVars, afkVars, dispatchVars, warnVars, purgeVars, calcVars, durationVars, gateVars, handlerVars, raceVars, targetVars, restrictVars, createVars, stopVars, settingsVars>>
otherThanRestrict == <<deliveryVars, afkVars, dispatchVars, warnVars, purgeVars, calcVars, durationVars, gateVars, handlerVars, raceVars, targetVars, gbanVars, createVars, stopVars, settingsVars>>
otherThanCreate == <<deliveryVars, afkVars, dispatchVars, warnVars, purgeVars, calcVars, durationVars, gateVars, handlerVars, raceVars, targetVars, gbanVars, restrictVars, stopVars, settingsVars>>
otherThanStop == <<deliveryVars, afkVars, dispatchVars, warnVars, purgeVars, calcVars, durationVars, gateVars, handlerVars, raceVars, targetVars, gbanVars, restrictVars, createVars, settingsVars>>
otherThanSettings == <<deliveryVars, afkVars, dispatchVars, warnVars, purgeVars, calcVars, durationVars, gateVars, handlerVars, raceVars, targetVars, gbanVars, restrictVars, createVars, stopVars>>

(***************************************************************************)
(* Bounds of the model.                                                    *)
(***************************************************************************)
MaxClock == 1        \* utcnow ranges over 0..MaxClock
MaxCycles == 2       \* poll cycles per loop

RemIds == {1, 2}     \* the Reminder rows in storage
SchIds == {1, 2}     \* the ScheduledMessage rows in storage

(***************************************************************************)
(* Deferred delivery                                                       *)
(***************************************************************************)

\* Outcomes of one app.send_message call.
SendOutcomes == {"ok", "Forbidden", "MessageIdInvalid", "error"}

\* Mutant: the query does not filter on is_active.
DueRemindersAnyFlag(db, t) ==
    {i \in RemIds : db[i].remind_time <= t}

\* select(Reminder).where(is_active == True, remind_time <= utcnow()).all()
DueReminders(db, t) ==
    {i \in RemIds : db[i].is_active /\ db[i].remind_time <= t}

\* select(ScheduledMessage).where(is_sent == False, send_time <= utcnow()).all()
DueScheduled(db, t) ==
    {i \in SchIds : ~db[i].is_sent /\ db[i].send_time <= t}

\* The result of the reminder's try block (4253-4272) given the outcome o1 of
\* the first send and o2 of the fallback send after MessageIdInvalid: with a
\* truthy message_id the MessageIdInvalid of the threaded send is caught and
\* the message is sent again unthreaded; any exception of that second send
\* (or a MessageIdInvalid of an unthreaded send) reaches the outer handlers.
ReminderSendResult(message_id, o1, o2) ==
    IF message_id # 0 /\ o1 = "MessageIdInvalid"
    THEN (IF o2 = "MessageIdInvalid" THEN "error" ELSE o2)
    ELSE (IF o1 = "MessageIdInvalid" THEN "error" ELSE o1)

\* Line 4282: the log line of `except Exception` reads rem.chat.id; Reminder
\* has no attribute chat (156-163), so the f-string raises AttributeError
\* inside the handler; it leaves the for loop and is caught at 4285, past
\* session.commit().
ReminderErrorLogRaises == TRUE

\* Line 4227: the log line of scheduled_message_task reads msg.id and
\* msg.chat_id, which exist: the loop goes on to the next message.
ScheduledErrorLogRaises == FALSE

\* A Reminder row as remind_command_handler builds it (2404-2411; the
\* default of is_active is True, 163): message_id is the id of the command
\* message, which is positive.
NewReminder(t) == [is_active |-> TRUE, remind_time |-> t, message_id |-> 1]

\* A ScheduledMessage row as scheduled_message_command_handler builds it
\* (3814-3820; the default of is_sent is False, 186).
NewScheduledMessage(t) == [is_sent |-> FALSE, send_time |-> t]

\* The delivery state while another subsystem is explored.
DeliveryIdle ==
    /\ utcnow = 0
    /\ remDb = [i \in RemIds |-> NewReminder(0)]
    /\ remPc = "sleep" /\ remTodo = {} /\ remSess = {} /\ remCycles = 0
    /\ remSent = [i \in RemIds |-> 0]
    /\ remFailed = {} /\ remOwed = {} /\ remMissed = FALSE
    /\ schDb = [i \in SchIds |-> NewScheduledMessage(0)]
    /\ schPc = "sleep" /\ schTodo = {} /\ schSess = {} /\ schCycles = 0
    /\ schSent = [i \in SchIds |-> 0]
    /\ schFailed = {} /\ schOwed = {} /\ schMissed = FALSE

\* The rows of each table are numbered in the order of their due times: the
\* loops treat the rows alike whatever their ids, so nothing is lost.
InitDelivery ==
    /\ utcnow = 0
    /\ remDb \in [RemIds -> {NewReminder(t) : t \in 0..MaxClock}]
    /\ \A i, j \in RemIds : i < j => remDb[i].remind_time <= remDb[j].remind_time
    /\ remPc = "sleep" /\ remTodo = {} /\ remSess = {} /\ remCycles = 0
    /\ remSent = [i \in RemIds |-> 0]
    /\ remFailed = {} /\ remOwed = {} /\ remMissed = FALSE
    /\ schDb \in [SchIds -> {NewScheduledMessage(t) : t \in 0..MaxClock}]
    /\ \A i, j \in SchIds : i < j => schDb[i].send_time <= schDb[j].send_time
    /\ schPc = "sleep" /\ schTodo = {} /\ schSess = {} /\ schCycles = 0
    /\ schSent = [i \in SchIds |-> 0]
    /\ schFailed = {} /\ schOwed = {} /\ schMissed = FALSE

remVars == <<remDb, remPc, remTodo, remSess, remCycles, remSent, remFailed, remOwed, remMissed>>
schVars == <<schDb, schPc, schTodo, schSess, schCycles, schSent, schFailed, schOwed, schMissed>>

\* Time passes.
Tick ==
    /\ utcnow < MaxClock
    /\ utcnow' = utcnow + 1
    /\ UNCHANGED <<remVars, schVars, otherThanDelivery>>

\* reminder_task 4240-4250: wake up, open a Session, select the due reminders.
ReminderPoll ==
    /\ remPc = "sleep"
    /\ remCycles < MaxCycles
    /\ remPc' = "loop"
    /\ remCycles' = remCycles + 1
    /\ remTodo' = DueReminders(remDb, utcnow)
    /\ remSess' = {}
    /\ UNCHANGED <<utcnow, remDb, remSent, remFailed, remOwed, remMissed, schVars, otherThanDelivery>>

\* reminder_task 4252-4282: one iteration of the for loop.
ReminderSend(i, o1, o2) ==
    /\ remPc = "loop"
    /\ i \in remTodo
    /\ LET r == ReminderSendResult(remDb[i].message_id, o1, o2) IN
       CASE r = "ok" ->
              /\ remSent' = [remSent EXCEPT ![i] = @ + 1]
              /\ remSess' = remSess \cup {i}
              /\ remTodo' = remTodo \ {i}
              /\ remOwed' = remOwed \ {i}
              /\ UNCHANGED <<remPc, remFailed, remMissed>>
         [] r = "Forbidden" ->
              /\ remSess' = remSess \cup {i}
              /\ remTodo' = remTodo \ {i}
              /\ remOwed' = remOwed \ {i}
              /\ UNCHANGED <<remSent, remPc, remFailed, remMissed>>
         [] OTHER ->
              IF ReminderErrorLogRaises
              THEN \* the exception of the log line is caught by the outer
                   \* handler: the cycle ends, the Session closes without commit
                   /\ remPc' = "sleep"
                   /\ remTodo' = {}
                   /\ remSess' = {}
                   /\ remMissed' = (remMissed \/ remOwed \ {i} # {})
                   /\ remOwed' = remFailed \cup {i}
                   /\ remFailed' = {}
                   /\ UNCHANGED remSent
              ELSE /\ remTodo' = remTodo \ {i}
                   /\ remFailed' = remFailed \cup {i}
                   /\ remOwed' = remOwed \ {i}
                   /\ UNCHANGED <<remSent, remSess, remPc, remMissed>>
    /\ UNCHANGED <<utcnow, remDb, remCycles, schVars, otherThanDelivery>>

\* reminder_task 4284: session.commit() after the for loop.
ReminderCommit ==
    /\ remPc = "loop"
    /\ remTodo = {}
    /\ remDb' = [i \in RemIds |->
                   IF i \in remSess THEN [remDb[i] EXCEPT !.is_active = FALSE] ELSE remDb[i]]
    /\ remSess' = {}
    /\ remPc' = "sleep"
    /\ remMissed' = (remMissed \/ remOwed # {} \/ remFailed \cap remSess # {})
    /\ remOwed' = remFailed
    /\ remFailed' = {}
    /\ UNCHANGED <<utcnow, remTodo, remCycles, remSent, schVars, otherThanDelivery>>

\* scheduled_message_task 4201-4211.
ScheduledPoll ==
    /\ schPc = "sleep"
    /\ schCycles < MaxCycles
    /\ schPc' = "loop"
    /\ schCycles' = schCycles + 1
    /\ schTodo' = DueScheduled(schDb, utcnow)
    /\ schSess' = {}
    /\ UNCHANGED <<utcnow, schDb, schSent, schFailed, schOwed, schMissed, remVars, otherThanDelivery>>

\* scheduled_message_task 4213-4227: one iteration of the for loop.
ScheduledSend(i, o) ==
    /\ schPc = "loop"
    /\ i \in schTodo
    /\ CASE o = "ok" ->
              /\ schSent' = [schSent EXCEPT ![i] = @ + 1]
              /\ schSess' = schSess \cup {i}
              /\ schTodo' = schTodo \ {i}
              /\ schOwed' = schOwed \ {i}
              /\ UNCHANGED <<schPc, schFailed, schMissed>>
         [] o = "Forbidden" ->
              /\ schSess' = schSess \cup {i}
              /\ schTodo' = schTodo \ {i}
              /\ schOwed' = schOwed \ {i}
              /\ UNCHANGED <<schSent, schPc, schFailed, schMissed>>
         [] OTHER ->
              IF ScheduledErrorLogRaises
              THEN \* the exception of the log line is caught by the outer
                   \* handler: the cycle ends, the Session closes without commit
                   /\ schPc' = "sleep"
                   /\ schTodo' = {}
                   /\ schSess' = {}
                   /\ schMissed' = (schMissed \/ schOwed \ {i} # {})
                   /\ schOwed' = schFailed \cup {i}
                   /\ schFailed' = {}
                   /\ UNCHANGED schSent
              ELSE /\ schTodo' = schTodo \ {i}
                   /\ schFailed' = schFailed \cup {i}
                   /\ schOwed' = schOwed \ {i}
                   /\ UNCHANGED <<schSent, schSess, schPc, schMissed>>
    /\ UNCHANGED <<utcnow, schDb, schCycles, remVars, otherThanDelivery>>

\* scheduled_message_task 4229: session.commit() after the for loop.
ScheduledCommit ==
    /\ schPc = "loop"
    /\ schTodo = {}
    /\ schDb' = [i \in SchIds |->
                   IF i \in schSess THEN [schDb[i] EXCEPT !.is_sent = TRUE] ELSE schDb[i]]
    /\ schSess' = {}
    /\ schPc' = "sleep"
    /\ schMissed' = (schMissed \/ schOwed # {} \/ schFailed \cap schSess # {})
    /\ schOwed' = schFailed
    /\ schFailed' = {}
    /\ UNCHANGED <<utcnow, schTodo, schCycles, schSent, remVars, otherThanDelivery>>

NextDelivery ==
    \/ Tick
    \/ ReminderPoll
    \/ \E i \in RemIds, o1 \in SendOutcomes, o2 \in SendOutcomes : ReminderSend(i, o1, o2)
    \/ ReminderCommit
    \/ ScheduledPoll
    \/ \E i \in SchIds, o \in SendOutcomes : ScheduledSend(i, o)
    \/ ScheduledCommit

\* The two loops as they run without end (`while True`, 4200 and 4239): the
\* same steps on storage, the Session and the position of each task, with
\* the history of the bounded exploration left aside.

\* 4201-4211.
ScheduledPollForever ==
    /\ schPc = "sleep"
    /\ schPc' = "loop"
    /\ schTodo' = DueScheduled(schDb, utcnow)
    /\ schSess' = {}
    /\ UNCHANGED <<utcnow, schDb, schCycles, schSent, schFailed, schOwed, schMissed, remVars, otherThanDelivery>>

\* 4213-4227.
ScheduledSendForever(i, o) ==
    /\ schPc = "loop"
    /\ i \in schTodo
    /\ IF o \in {"ok", "Forbidden"}
       THEN schSess' = schSess \cup {i} /\ schTodo' = schTodo \ {i} /\ UNCHANGED schPc
       ELSE IF ScheduledErrorLogRaises
            THEN schPc' = "sleep" /\ schTodo' = {} /\ schSess' = {}
            ELSE schTodo' = schTodo \ {i} /\ UNCHANGED <<schSess, schPc>>
    /\ UNCHANGED <<utcnow, schDb, schCycles, schSent, schFailed, schOwed, schMissed, remVars, otherThanDelivery>>

\* 4229.
ScheduledCommitForever ==
    /\ schPc = "loop"
    /\ schTodo = {}
    /\ schDb' = [i \in SchIds |->
                   IF i \in schSess THEN [schDb[i] EXCEPT !.is_sent = TRUE] ELSE schDb[i]]
    /\ schSess' = {}
    /\ schPc' = "sleep"
    /\ UNCHANGED <<utcnow, schTodo, schCycles, schSent, schFailed, schOwed, schMissed, remVars, otherThanDelivery>>

\* 4240-4250.
ReminderPollForever ==
    /\ remPc = "sleep"
    /\ remPc' = "loop"
    /\ remTodo' = DueReminders(remDb, utcnow)
    /\ remSess' = {}
    /\ UNCHANGED <<utcnow, remDb, remCycles, remSent, remFailed, remOwed, remMissed, schVars, otherThanDelivery>>

\* 4252-4282.
ReminderSendForever(i, o1, o2) ==
    /\ remPc = "loop"
    /\ i \in remTodo
    /\ IF ReminderSendResult(remDb[i].message_id, o1, o2) \in {"ok", "Forbidden"}
       THEN remSess' = remSess \cup {i} /\ remTodo' = remTodo \ {i} /\ UNCHANGED remPc
       ELSE IF ReminderErrorLogRaises
            THEN remPc' = "sleep" /\ remTodo' = {} /\ remSess' = {}
            ELSE remTodo' = remTodo \ {i} /\ UNCHANGED <<remSess, remPc>>
    /\ UNCHANGED <<utcnow, remDb, remCycles, remSent, remFailed, remOwed, remMissed, schVars, otherThanDelivery>>

\* 4284.
ReminderCommitForever ==
    /\ remPc = "loop"
    /\ remTodo = {}
    /\ remDb' = [i \in RemIds |->
                   IF i \in remSess THEN [remDb[i] EXCEPT !.is_active = FALSE] ELSE remDb[i]]
    /\ remSess' = {}
    /\ remPc' = "sleep"
    /\ UNCHANGED <<utcnow, remTodo, remCycles, remSent, remFailed, remOwed, remMissed, schVars, otherThanDelivery>>

\* Every step of one task.
scheduled_message_task ==
    \/ ScheduledPollForever
    \/ \E i \in SchIds, o \in SendOutcomes : ScheduledSendForever(i, o)
    \/ ScheduledCommitForever

reminder_task ==
    \/ ReminderPollForever
    \/ \E i \in RemIds, o1 \in SendOutcomes, o2 \in SendOutcomes : ReminderSendForever(i, o1, o2)
    \/ ReminderCommitForever

NextDeliveryForever ==
    \/ Tick
    \/ scheduled_message_task
    \/ reminder_task

MaxStops == 1        \* stops of the process per behaviour

otherThanDeliveryAndStop == <<afkVars, dispatchVars, warnVars, purgeVars, calcVars, durationVars, gateVars, handlerVars, raceVars, targetVars, gbanVars, restrictVars, createVars, settingsVars>>

StopIdle == stops = 0

\* The process ends while a delivery task is inside a poll cycle (sys.exit
\* of restart_command_handler, 1005, or a crash), and is started again
\* (4308-4309): storage keeps what was committed, the tasks start over at
\* their sleep, and the Sessions with their pending flags are gone. Each task
\* is suspended at an await then: at its sleep, or in the send of one of the
\* items still to be iterated.
ProcessStops ==
    /\ stops < MaxStops
    /\ remPc = "loop" \/ schPc = "loop"
    /\ remPc = "sleep" \/ remTodo # {}
    /\ schPc = "sleep" \/ schTodo # {}
    /\ stops' = stops + 1
    /\ remPc' = "sleep" /\ remTodo' = {} /\ remSess' = {} /\ remFailed' = {}
    /\ schPc' = "sleep" /\ schTodo' = {} /\ schSess' = {} /\ schFailed' = {}
    /\ UNCHANGED <<utcnow, remDb, remCycles, remSent, remOwed, remMissed,
                   schDb, schCycles, schSent, schOwed, schMissed, otherThanDeliveryAndStop>>

NextDeliveryStops ==
    \/ NextDelivery
    \/ ProcessStops

(***************************************************************************)
(* AFK subsystem                                                           *)
(***************************************************************************)

AFK_MESSAGE_COOLDOWN == 60   \* seconds (self2.py 122, self.py 85)

NumHumans == 1        \* counterparts that are ordinary users
TickStep == 30        \* seconds by which the loop clock advances in one step
MaxTime == 90         \* the loop clock ranges over 0..MaxTime
MaxInflight == 2      \* afk_command_handler invocations suspended at once
MaxAfkCmds == 3       \* .afk commands per behaviour

Owner == 0                    \* client.me.id
Humans == 1..NumHumans
Bot == NumHumans + 1          \* a counterpart with from_user.is_bot
NoUser == -1                  \* message.from_user is None
Counterparts == Humans \cup {Bot}

None == "None"                \* reason = None
NoTime == -1                  \* start_time = None; no entry of a map
DefaultReason == "Not available at the moment."
Reasons == {DefaultReason, "lunch"}

\* The inbound messages: chat kind, sender, and whether the owner is mentioned.
AfkMessages ==
    [chat : {"private", "group"}, from_user : Counterparts \cup {Owner, NoUser},
     mentioned : BOOLEAN]

\* filters.me: the message was sent by the logged-in account.
FilterMe(m) == m.from_user = Owner

\* The filter of afk_reply_handler (self2.py 748; self.py 429-430):
\* filters.private & ~filters.me | filters.group & ~filters.me & filters.mentioned
AfkReplyFilter(m) ==
    \/ (m.chat = "private" /\ ~FilterMe(m))
    \/ (m.chat = "group" /\ ~FilterMe(m) /\ m.mentioned)

\* Mutant: the comparison with the cooldown is <= instead of <.
InCooldownInclusive(last, user, t) ==
    /\ last[user] # NoTime
    /\ (t - last[user]) <= AFK_MESSAGE_COOLDOWN

\* self2.py 767-769: still in cooldown, do not reply.
InCooldown(last, user, t) ==
    /\ last[user] # NoTime
    /\ (t - last[user]) < AFK_MESSAGE_COOLDOWN

\* Mutant: the cooldown check is missing.
AfkRepliesNoCooldown(m, st, t) ==
    /\ st.is_afk
    /\ m.from_user # NoUser
    /\ m.from_user # Bot
    /\ m.from_user # Owner

\* Mutant: the check of is_afk is missing.
AfkRepliesWhenInactive(m, st, t) ==
    /\ m.from_user # NoUser
    /\ m.from_user # Bot
    /\ m.from_user # Owner
    /\ ~InCooldown(st.last_afk_message_time, m.from_user, t)

\* self2.py 755-769: whether the handler goes on to reply_text.
AfkReplies(m, st, t) ==
    /\ st.is_afk
    /\ m.from_user # NoUser
    /\ m.from_user # Bot
    /\ m.from_user # Owner
    /\ ~InCooldown(st.last_afk_message_time, m.from_user, t)

EmptyCooldowns == [u \in Counterparts |-> NoTime]

\* self2.py 116-121.
AfkDefault ==
    [is_afk |-> FALSE, reason |-> None, start_time |-> NoTime,
     last_afk_message_time |-> EmptyCooldowns]

NoRow == [exists |-> FALSE, is_afk |-> FALSE, reason |-> None, start_time |-> NoTime]

\* Whether the key of the startup lookup, API_ID (72, 193), equals the key
\* the handler stores the row under, client.me.id (708, 736). API_ID is the
\* id of the registered application, client.me.id the id of the account:
\* two unrelated identifiers.
ApiIdIsOwnerId == FALSE

\* self2.py 191-198: the row selected by user_id == API_ID overwrites
\* is_afk, reason and start_time of the default dict.
LoadAfk(row, found) ==
    IF found /\ row.exists
    THEN [AfkDefault EXCEPT !.is_afk = row.is_afk, !.reason = row.reason,
                            !.start_time = row.start_time]
    ELSE AfkDefault

\* The unit of work a Session holds at session.commit(): an INSERT of a new
\* row, or an UPDATE of the loaded row that sets the columns whose value
\* differs from the loaded one.
Staged(loaded, is_afk, reason, start_time) ==
    IF ~loaded.exists
    THEN [op |-> "insert", set_is_afk |-> TRUE, is_afk |-> is_afk,
          set_reason |-> TRUE, reason |-> reason,
          set_start |-> TRUE, start_time |-> start_time]
    ELSE [op |-> "update",
          set_is_afk |-> (loaded.is_afk # is_afk),
          is_afk |-> IF loaded.is_afk # is_afk THEN is_afk ELSE FALSE,
          set_reason |-> (loaded.reason # reason),
          reason |-> IF loaded.reason # reason THEN reason ELSE None,
          set_start |-> (loaded.start_time # start_time),
          start_time |-> IF loaded.start_time # start_time THEN start_time ELSE NoTime]

NothingStaged ==
    [op |-> "none", set_is_afk |-> FALSE, is_afk |-> FALSE, set_reason |-> FALSE,
     reason |-> None, set_start |-> FALSE, start_time |-> NoTime]

\* session.commit() (self2.py 745) of a staged unit of work on the committed
\* row. user_id is unique (151): an INSERT beside an existing row fails and
\* leaves the row as it is.
Commit(row, st) ==
    CASE st.op = "insert" ->
           IF row.exists THEN row
           ELSE [exists |-> TRUE, is_afk |-> st.is_afk, reason |-> st.reason,
                 start_time |-> st.start_time]
      [] st.op = "update" ->
           [exists |-> TRUE,
            is_afk |-> IF st.set_is_afk THEN st.is_afk ELSE row.is_afk,
            reason |-> IF st.set_reason THEN st.reason ELSE row.reason,
            start_time |-> IF st.set_start THEN st.start_time ELSE row.start_time]
      [] OTHER -> row

\* Mutant: the cooldown map is not cleared when AFK is left.
AfkDisabledKeepsMap(st) ==
    [is_afk |-> FALSE, reason |-> None, start_time |-> NoTime,
     last_afk_message_time |-> st.last_afk_message_time]

\* self2.py 710-714 (self.py 410-414): the dict after leaving AFK.
AfkDisabled(st) ==
    [is_afk |-> FALSE, reason |-> None, start_time |-> NoTime,
     last_afk_message_time |-> EmptyCooldowns]

\* self2.py 725-733 (self.py 418-424): the dict after entering AFK.
AfkEnabled(st, reason, t) ==
    [is_afk |-> TRUE, reason |-> reason, start_time |-> t,
     last_afk_message_time |-> EmptyCooldowns]

\* The AFK state while another subsystem is explored.
AfkIdle ==
    /\ AFK_STATUS = AfkDefault
    /\ loopTime = 0
    /\ afkRow = NoRow
    /\ afkInflight = <<>>
    /\ afkCmds = 0
    /\ lastToggle = "none"
    /\ winStart = EmptyCooldowns
    /\ winReplies = [u \in Counterparts |-> 0]
    /\ winMsgs = [u \in Counterparts |-> 0]
    /\ winCount = [u \in Counterparts |-> 0]
    /\ lastReply = EmptyCooldowns
    /\ periodLast = EmptyCooldowns
    /\ closeAny = FALSE
    /\ closeSamePeriod = FALSE

InitAfk ==
    /\ AFK_STATUS = AfkDefault
    /\ loopTime = 0
    /\ afkRow = NoRow
    /\ afkInflight = <<>>
    /\ afkCmds = 0
    /\ lastToggle = "none"
    /\ winStart = EmptyCooldowns
    /\ winReplies = [u \in Counterparts |-> 0]
    /\ winMsgs = [u \in Counterparts |-> 0]
    /\ winCount = [u \in Counterparts |-> 0]
    /\ lastReply = EmptyCooldowns
    /\ periodLast = EmptyCooldowns
    /\ closeAny = FALSE
    /\ closeSamePeriod = FALSE

monitorVars == <<winStart, winReplies, winMsgs, winCount, lastReply, periodLast, closeAny, closeSamePeriod>>

\* The loop clock advances.
AfkTick ==
    /\ loopTime + TickStep <= MaxTime
    /\ loopTime' = loopTime + TickStep
    /\ lastToggle' = "none"
    /\ UNCHANGED <<AFK_STATUS, afkRow, afkInflight, afkCmds, monitorVars, otherThanAfk>>

\* afk_command_handler, from its dispatch to `await message.edit`
\* (self2.py 698-722 and 724-742): the row is loaded, the dict is toggled and
\* the row's new values are staged in the handler's Session. `arg` is
\* extract_arg(message).
AfkCommandStart(arg) ==
    /\ afkCmds < MaxAfkCmds
    /\ Len(afkInflight) < MaxInflight
    /\ afkCmds' = afkCmds + 1
    /\ IF AFK_STATUS.is_afk
       THEN /\ AFK_STATUS' = AfkDisabled(AFK_STATUS)
            /\ afkInflight' = Append(afkInflight,
                   IF afkRow.exists THEN Staged(afkRow, FALSE, None, NoTime)
                   ELSE NothingStaged)
            /\ lastToggle' = "off"
       ELSE LET reason == IF arg = None THEN DefaultReason ELSE arg IN
            /\ AFK_STATUS' = AfkEnabled(AFK_STATUS, reason, loopTime)
            /\ afkInflight' = Append(afkInflight, Staged(afkRow, TRUE, reason, loopTime))
            /\ lastToggle' = "on"
    /\ winStart' = EmptyCooldowns
    /\ winReplies' = [u \in Counterparts |-> 0]
    /\ winMsgs' = [u \in Counterparts |-> 0]
    /\ winCount' = [u \in Counterparts |-> 0]
    /\ periodLast' = EmptyCooldowns
    /\ UNCHANGED <<loopTime, afkRow, lastReply, closeAny, closeSamePeriod, otherThanAfk>>

RemoveAt(s, k) == [j \in 1..(Len(s) - 1) |-> IF j < k THEN s[j] ELSE s[j + 1]]

\* afk_command_handler resumes after message.edit (self2.py 722/742-745):
\* session.commit() when the edit returned; when it raised, the exception
\* leaves the handler and the Session is closed without commit.
AfkCommandFinish(k, editOk) ==
    /\ k \in 1..Len(afkInflight)
    /\ afkRow' = IF editOk THEN Commit(afkRow, afkInflight[k]) ELSE afkRow
    /\ afkInflight' = RemoveAt(afkInflight, k)
    /\ lastToggle' = "none"
    /\ UNCHANGED <<AFK_STATUS, loopTime, afkCmds, monitorVars, otherThanAfk>>

\* afk_reply_handler (self2.py 748-788; self.py 429-472) on a message that
\* passes its filter. Nothing suspends before reply_text, and nothing is
\* written after it.
AfkReply(m) ==
    /\ AfkReplyFilter(m)
    /\ LET u == m.from_user
           t == loopTime
           replied == AfkReplies(m, AFK_STATUS, t)
           counted == AFK_STATUS.is_afk /\ u \in Counterparts
           fresh == counted /\ (winStart[u] = NoTime \/ t - winStart[u] >= AFK_MESSAGE_COOLDOWN)
           one == IF replied THEN 1 ELSE 0
       IN
       /\ AFK_STATUS' =
            IF replied
            THEN [AFK_STATUS EXCEPT !.last_afk_message_time[u] = t]
            ELSE AFK_STATUS
       /\ winStart' = IF fresh THEN [winStart EXCEPT ![u] = t] ELSE winStart
       /\ winReplies' =
            IF fresh THEN [winReplies EXCEPT ![u] = one]
            ELSE IF counted THEN [winReplies EXCEPT ![u] = @ + one]
            ELSE winReplies
       /\ winMsgs' =
            IF fresh THEN [winMsgs EXCEPT ![u] = 1]
            ELSE IF counted THEN [winMsgs EXCEPT ![u] = 2]
            ELSE winMsgs
       /\ winCount' = IF fresh THEN [winCount EXCEPT ![u] = @ + 1] ELSE winCount
       /\ lastReply' = IF replied THEN [lastReply EXCEPT ![u] = t] ELSE lastReply
       /\ periodLast' = IF replied THEN [periodLast EXCEPT ![u] = t] ELSE periodLast
       /\ closeAny' =
            (closeAny \/ (replied /\ lastReply[u] # NoTime
                                  /\ t - lastReply[u] < AFK_MESSAGE_COOLDOWN))
       /\ closeSamePeriod' =
            (closeSamePeriod \/ (replied /\ periodLast[u] # NoTime
                                         /\ t - periodLast[u] < AFK_MESSAGE_COOLDOWN))
    /\ lastToggle' = "none"
    /\ UNCHANGED <<loopTime, afkRow, afkInflight, afkCmds, otherThanAfk>>

\* The process stops and is started again (self2.py 116-121, 191-198): the
\* dict is rebuilt from its defaults and the stored row, suspended handlers
\* and their Sessions are gone.
Restart ==
    /\ AFK_STATUS' = LoadAfk(afkRow, ApiIdIsOwnerId)
    /\ afkInflight' = <<>>
    /\ lastToggle' = "none"
    /\ winStart' = EmptyCooldowns
    /\ winReplies' = [u \in Counterparts |-> 0]
    /\ winMsgs' = [u \in Counterparts |-> 0]
    /\ winCount' = [u \in Counterparts |-> 0]
    /\ periodLast' = EmptyCooldowns
    /\ lastReply' = EmptyCooldowns
    /\ UNCHANGED <<loopTime, afkRow, afkCmds, closeAny, closeSamePeriod, otherThanAfk>>

NextAfk ==
    \/ AfkTick
    \/ \E arg \in Reasons \cup {None} : AfkCommandStart(arg)
    \/ \E k \in 1..MaxInflight, editOk \in BOOLEAN : AfkCommandFinish(k, editOk)
    \/ \E m \in AfkMessages : AfkReply(m)
    \/ Restart

(***************************************************************************)
(* Command dispatch                                                        *)
(***************************************************************************)

\* A text is a sequence of characters.
Prefix == <<".">>                  \* COMMAND_PREFIX (self2.py 89)
Username == <<"m", "e">>           \* client.me.username

Lower(c) ==
    CASE c = "B" -> "b" [] c = "E" -> "e" [] c = "G" -> "g" [] c = "I" -> "i" [] c = "N" -> "n" [] c = "P" -> "p"
      [] c = "D" -> "d" [] c = "H" -> "h" [] c = "M" -> "m" [] c = "S" -> "s" [] OTHER -> c

LowerText(t) == [k \in 1..Len(t) |-> Lower(t[k])]

IsPrefixOf(p, t) == Len(p) <= Len(t) /\ SubSeq(t, 1, Len(p)) = p

\* re.match(rf"^(?:{cmd}(?:@?{username})?)(?:\s|$)", rest, re.IGNORECASE):
\* the command, then optionally the username with or without "@", then
\* whitespace or the end of the text.
CommandRegexMatches(cmd, rest) ==
    \E tail \in {<<>>, Username, <<"@">> \o Username} :
        LET pat == cmd \o tail IN
        /\ IsPrefixOf(pat, LowerText(rest))
        /\ (Len(rest) = Len(pat) \/ rest[Len(pat) + 1] = " ")

\* Mutant: the command is not required to end at whitespace or the end.
CommandMatchesAnyContinuation(cmds, text) ==
    /\ IsPrefixOf(Prefix, text)
    /\ \E cmd \in cmds : IsPrefixOf(cmd, LowerText(SubSeq(text, Len(Prefix) + 1, Len(text))))

\* Mutant: the command is compared without folding the letter case.
CommandMatchesCaseSensitive(cmds, text) ==
    /\ IsPrefixOf(Prefix, text)
    /\ \E cmd \in cmds :
         LET rest == SubSeq(text, Len(Prefix) + 1, Len(text)) IN
         \E tail \in {<<>>, Username, <<"@">> \o Username} :
             /\ IsPrefixOf(cmd \o tail, rest)
             /\ (Len(rest) = Len(cmd \o tail) \/ rest[Len(cmd \o tail) + 1] = " ")

\* filters.command(cmds, prefixes=COMMAND_PREFIX), with its default
\* case_sensitive=False, on the text of a message (self2.py 472, 1355, 1934).
CommandMatches(cmds, text) ==
    /\ IsPrefixOf(Prefix, text)
    /\ \E cmd \in cmds : CommandRegexMatches(cmd, SubSeq(text, Len(Prefix) + 1, Len(text)))

\* The handlers registered with @app.on_message, in the order of their
\* registration (all in the default group), for a part of the command table.
\* kind "command": filters.me & filters.command(commands); kind "listener":
\* the filter named by `filter`.
Registry == <<
    [name |-> "ping_command_handler", kind |-> "command", filter |-> "",
     commands |-> {<<"p", "i", "n", "g">>}],
    [name |-> "afk_command_handler", kind |-> "command", filter |-> "",
     commands |-> {<<"a", "f", "k">>}],
    [name |-> "afk_reply_handler", kind |-> "listener", filter |-> "afk_reply",
     commands |-> {}],
    [name |-> "base64_encode_handler", kind |-> "command", filter |-> "",
     commands |-> {<<"b", "a", "s", "e", "6", "4", "e">>, <<"b", "6", "4", "e">>}],
    [name |-> "gif_command_handler", kind |-> "command", filter |-> "",
     commands |-> {<<"g", "i", "f">>}],
    [name |-> "google_command_handler", kind |-> "command", filter |-> "",
     commands |-> {<<"g">>}],
    [name |-> "ban_command_handler", kind |-> "command", filter |-> "",
     commands |-> {<<"b", "a", "n">>}],
    [name |-> "unban_command_handler", kind |-> "command", filter |-> "",
     commands |-> {<<"u", "n", "b", "a", "n">>}],
    [name |-> "gban_command_handler", kind |-> "command", filter |-> "",
     commands |-> {<<"g", "b", "a", "n">>}],
    [name |-> "enforce_gban_on_new_members", kind |-> "listener", filter |-> "new_chat_members",
     commands |-> {}],
    [name |-> "welcome_new_member_event_handler", kind |-> "listener",
     filter |-> "new_chat_members_group", commands |-> {}],
    [name |-> "antilink_message_listener", kind |-> "listener", filter |-> "group_not_me",
     commands |-> {}] >>

CommandHandlers == {Registry[k].name : k \in {j \in 1..Len(Registry) : Registry[j].kind = "command"}}
PassiveListeners == {Registry[k].name : k \in {j \in 1..Len(Registry) : Registry[j].kind = "listener"}}

\* Mutant: a command handler is registered without filters.me.
HandlerFilterWithoutMe(r, m) ==
    CASE r.kind = "command" -> CommandMatches(r.commands, m.text)
      [] r.filter = "afk_reply" -> AfkReplyFilter(m)
      [] r.filter = "new_chat_members" -> m.new_chat_members
      [] r.filter = "new_chat_members_group" -> m.new_chat_members /\ m.chat = "group"
      [] r.filter = "group_not_me" -> m.chat = "group" /\ ~FilterMe(m)
      [] OTHER -> FALSE

\* The filter of one registration on a message.
HandlerFilter(r, m) ==
    CASE r.kind = "command" -> FilterMe(m) /\ CommandMatches(r.commands, m.text)
      [] r.filter = "afk_reply" -> AfkReplyFilter(m)
      [] r.filter = "new_chat_members" -> m.new_chat_members
      [] r.filter = "new_chat_members_group" -> m.new_chat_members /\ m.chat = "group"
      [] r.filter = "group_not_me" -> m.chat = "group" /\ ~FilterMe(m)
      [] OTHER -> FALSE

NoHandler == "none"

\* The dispatcher runs, within a group, the first registered handler whose
\* filter passes, and no other.
HandlerFor(m) ==
    LET hits == {k \in 1..Len(Registry) : HandlerFilter(Registry[k], m)} IN
    IF hits = {} THEN NoHandler
    ELSE Registry[CHOOSE k \in hits : \A j \in hits : k <= j].name

Texts ==
    {<<".", "p", "i", "n", "g">>,
     <<".", "P", "I", "N", "G">>,
     <<".", "P", "i", "n", "g", " ", "x">>,
     <<".", "p", "i", "n", "g", " ", "x">>,
     <<"p", "i", "n", "g">>,
     <<".", "p", "i", "n", "g", "x">>,
     <<".", "p", "i", "n", "g", "@", "m", "e">>,
     <<".", "p", "i", "n", "g", "m", "e", " ", "x">>,
     <<".", "p", "i", "n", "g", "@", "y", "o", "u">>,
     <<".", "g">>,
     <<".", "g", " ", "x">>,
     <<".", "G", " ", "x">>,
     <<".", "g", "i", "f">>,
     <<".", "g", "b", "a", "n", " ", "5">>,
     <<".", "G", "B", "a", "n">>,
     <<".", "b", "a", "n", " ", "5">>,
     <<".", "u", "n", "b", "a", "n", " ", "5">>,
     <<".", "b", "6", "4", "e", " ", "x">>,
     <<".", "b", "a", "s", "e", "6", "4", "e">>,
     <<".", "B", "6", "4", "E">>,
     <<".", "a", "f", "k">>,
     <<".", "x", "y", "z">>,
     <<".">>,
     <<"h", "e", "l", "l", "o">>,
     <<"/", "p", "i", "n", "g">>,
     <<".", " ", "p", "i", "n", "g">>}

NoText == <<>>

\* Text messages, and service messages about new chat members (no text).
DispatchMessages ==
    [text : Texts, from_user : {Owner, 1}, chat : {"private", "group"},
     mentioned : BOOLEAN, new_chat_members : {FALSE}]
    \cup
    [text : {NoText}, from_user : {Owner, 1}, chat : {"group"},
     mentioned : {FALSE}, new_chat_members : {TRUE}]

NoMessage ==
    [text |-> NoText, from_user |-> NoUser, chat |-> "private", mentioned |-> FALSE,
     new_chat_members |-> FALSE]

\* The dispatch state while another subsystem is explored.
DispatchIdle ==
    /\ dMsg = NoMessage
    /\ dRan = NoHandler

InitDispatch == DispatchIdle

\* One update is dispatched: the message received and the handler run for it.
Dispatch(m) ==
    /\ dMsg' = m
    /\ dRan' = HandlerFor(m)
    /\ UNCHANGED otherThanDispatch

NextDispatch == \E m \in DispatchMessages : Dispatch(m)

(***************************************************************************)
(* Warnings                                                                *)
(***************************************************************************)

MaxWarns == 4                 \* warn commands that store a record, per behaviour

WarnUsers == {1, 2}           \* users that can be warned
WarnChats == {1, 2}           \* group chats
NoTarget == -2                \* get_target_user_id returned None

ChatTypes == {"group", "supergroup", "private"}
MemberQueries == {"granted", "missing", "ChatAdminRequired", "error"}

\* require_admin_rights (self2.py 324-366): whether the wrapped handler is
\* called, given message.chat.type and the outcome of get_chat_member with
\* the check of the required capabilities.
GateDelegates(chatType, query) ==
    /\ chatType \in {"group", "supergroup"}
    /\ query = "granted"

\* The rows of one (user, chat) pair:
\* select(Warning).where(user_id == target, chat_id == chat).
WarningsOf(ws, user, chat) == {w \in ws : w.user_id = user /\ w.chat_id = chat}

\* The id SQLite gives a new row of an INTEGER PRIMARY KEY table.
NewWarningId(ws) ==
    IF ws = {} THEN 1
    ELSE 1 + (CHOOSE n \in {w.id : w \in ws} : \A w \in ws : w.id <= n)

\* Mutant: warnings[0] of the descending order, the newest row.
NewestWarnings(rows) == {w \in rows : \A x \in rows : x.timestamp <= w.timestamp}

\* self2.py 3159-3165: warnings[-1] of the rows ordered by timestamp
\* descending; among rows of equal timestamp the database decides.
OldestWarnings(rows) == {w \in rows : \A x \in rows : w.timestamp <= x.timestamp}

NoWarnOp == [kind |-> "none", user |-> NoTarget, chat |-> 0, delegated |-> FALSE]

\* The warning store while another subsystem is explored.
WarnIdle ==
    /\ warnings = {}
    /\ wClock = 0
    /\ wBefore = {}
    /\ wOp = NoWarnOp

InitWarn == WarnIdle

\* warn_command_handler behind its gate (self2.py 3093-3142). The timestamp
\* is datetime.utcnow() at the construction of the row (178); the clock has
\* advanced when the next warning is built.
warn_command_handler(chat, chatType, query, target) ==
    /\ wBefore' = warnings
    /\ wOp' = [kind |-> "warn", user |-> target, chat |-> chat,
                delegated |-> GateDelegates(chatType, query)]
    /\ IF GateDelegates(chatType, query) /\ target # NoTarget /\ target # Owner
       THEN /\ wClock < MaxWarns
            /\ warnings' = warnings \cup
                 {[id |-> NewWarningId(warnings), user_id |-> target, chat_id |-> chat,
                   timestamp |-> wClock]}
            /\ wClock' = wClock + 1
       ELSE UNCHANGED <<warnings, wClock>>
    /\ UNCHANGED otherThanWarn

\* unwarn_command_handler behind its gate (self2.py 3144-3183).
unwarn_command_handler(chat, chatType, query, target) ==
    /\ wBefore' = warnings
    /\ wOp' = [kind |-> "unwarn", user |-> target, chat |-> chat,
                delegated |-> GateDelegates(chatType, query)]
    /\ IF GateDelegates(chatType, query) /\ target # NoTarget
             /\ WarningsOf(warnings, target, chat) # {}
       THEN \E w \in OldestWarnings(WarningsOf(warnings, target, chat)) :
                warnings' = warnings \ {w}
       ELSE UNCHANGED warnings
    /\ UNCHANGED <<wClock, otherThanWarn>>

NextWarn ==
    \/ \E chat \in WarnChats, chatType \in ChatTypes, query \in MemberQueries,
          target \in WarnUsers \cup {NoTarget, Owner} :
          warn_command_handler(chat, chatType, query, target)
    \/ \E chat \in WarnChats, chatType \in ChatTypes, query \in MemberQueries,
          target \in WarnUsers \cup {NoTarget, Owner} :
          unwarn_command_handler(chat, chatType, query, target)

(***************************************************************************)
(* Purge                                                                   *)
(***************************************************************************)

MaxMsgId == 4                 \* the chat holds messages with ids in 1..MaxMsgId
MaxCount == 3                 \* the largest count given to .purge

\* message.chat.type as the installed Pyrogram delivers it. The 2.x releases
\* (the ones that have pyrogram.enums, imported at line 39) deliver a member
\* of the enumeration ChatType, and a member equals no string; the strings
\* are the values the tests of the source (328, 2128, 3392) are written for.
DeliveredChatTypes ==
    ChatTypes \cup {"ChatType.GROUP", "ChatType.SUPERGROUP", "ChatType.PRIVATE"}

\* The argument of the command: none, an integer literal, or other text.
NoArg == [kind |-> "none", value |-> 0]
CountArgs ==
    {NoArg, [kind |-> "text", value |-> 0]}
        \cup {[kind |-> "int", value |-> n] : n \in -1..MaxCount}

\* Mutant: a text that is no integer counts as no argument.
PurgeCountLenient(arg) ==
    CASE arg.kind = "int" /\ arg.value > 0 -> arg.value
      [] arg.kind = "int" -> 0
      [] OTHER -> 1

\* self2.py 653-657: count = int(count_str) if count_str else 1; a text that
\* int() rejects and a count <= 0 both end in ValueError. 0 stands for it.
PurgeCount(arg) ==
    CASE arg.kind = "none" -> 1
      [] arg.kind = "int" /\ arg.value > 0 -> arg.value
      [] OTHER -> 0

\* The n largest members of a set of ids.
RECURSIVE Newest(_, _)
Newest(ids, n) ==
    IF n = 0 \/ ids = {} THEN {}
    ELSE LET top == CHOOSE i \in ids : \A j \in ids : j <= i
         IN {top} \cup Newest(ids \ {top}, n - 1)

\* What `async for msg in client.iter_messages(chat, offset_id, limit)` does.
\* The Client of Pyrogram 2.x has no attribute iter_messages, so the
\* expression raises AttributeError; a Client that offers the history
\* iterator under that name yields, newest first, up to `limit` messages
\* older than offset_id.
IterOutcomes == {"AttributeError", "history"}
IterMessages(existing, offset_id, limit) ==
    Newest({i \in existing : i < offset_id}, limit)

DeleteOutcomes == {"ok", "ChatAdminRequired", "error"}

NoReply == 0

PurgeMessages ==
    [id : {MaxMsgId + 1},
     existing : SUBSET (1..MaxMsgId),
     reply_to : {NoReply} \cup 1..MaxMsgId,
     arg : CountArgs,
     chat_type : DeliveredChatTypes,
     query : MemberQueries,
     iter : IterOutcomes,
     delete : DeleteOutcomes]

NoPurge ==
    [id |-> 0, existing |-> {}, reply_to |-> NoReply, arg |-> NoArg, chat_type |-> "private",
     query |-> "error", iter |-> "history", delete |-> "ok"]

\* The purge state while another subsystem is explored.
PurgeIdle ==
    /\ pMsg = NoPurge
    /\ pDone = TRUE
    /\ pCalls = <<>>
    /\ pEdits = 0
    /\ pSends = 0

\* A .purge command has been received; it replies to an existing message or
\* to none.
InitPurge ==
    /\ pMsg \in {m \in PurgeMessages : m.reply_to # NoReply => m.reply_to \in m.existing}
    /\ pDone = FALSE
    /\ pCalls = <<>>
    /\ pEdits = 0
    /\ pSends = 0

\* self2.py 661-678: the ids collected for delete_messages when the
\* iteration runs: the command message, then the messages the iterator
\* yields for offset_id = the replied-to id and limit = count.
PurgeList(m, count) ==
    {m.id} \cup IterMessages(m.existing, m.reply_to, count)

\* purge_command_handler behind require_admin_rights(['can_delete_messages'])
\* (self2.py 640-693).
purge_command_handler(m) ==
    /\ ~pDone /\ m = pMsg
    /\ pDone' = TRUE
    /\ UNCHANGED pMsg
    /\ LET count == PurgeCount(m.arg) IN
       CASE ~GateDelegates(m.chat_type, m.query) ->
              \* 328-364: one edit by the gate, the handler is not called
              pCalls' = <<>> /\ pEdits' = 1 /\ pSends' = 0
         [] m.reply_to = NoReply ->
              pCalls' = <<>> /\ pEdits' = 1 /\ pSends' = 0
         [] count = 0 ->
              pCalls' = <<>> /\ pEdits' = 1 /\ pSends' = 0
         [] m.iter = "AttributeError" ->
              \* 690-692: except Exception: send_message with the error
              pCalls' = <<>> /\ pEdits' = 0 /\ pSends' = 1
         [] OTHER ->
              /\ pCalls' = <<PurgeList(m, count)>>
              /\ pEdits' = IF m.delete = "ChatAdminRequired" THEN 1 ELSE 0
              /\ pSends' = IF m.delete = "error" THEN 1 ELSE 0
    /\ UNCHANGED otherThanPurge

NextPurge == purge_command_handler(pMsg)

(***************************************************************************)
(* Calc                                                                    *)
(***************************************************************************)

MaxExprLen == 3               \* length of the enumerated expressions

Digits == {"0", "1", "2", "3", "4", "5", "6", "7", "8", "9"}

DigitValue(c) ==
    CASE c = "0" -> 0 [] c = "1" -> 1 [] c = "2" -> 2 [] c = "3" -> 3 [] c = "4" -> 4
      [] c = "5" -> 5 [] c = "6" -> 6 [] c = "7" -> 7 [] c = "8" -> 8 [] c = "9" -> 9

\* Mutant: letters pass the filter as well.
KeptBySanitizerOrLetter(c) ==
    c \in Digits \cup {"+", "-", "*", "/", "(", ")", ".", " "} \cup {"a", "i", "m", "o", "p", "r", "s", "t"}

\* The complement of the class [^0-9+\-*/().\s] of line 613.
KeptBySanitizer(c) == c \in Digits \cup {"+", "-", "*", "/", "(", ")", ".", " "}

\* re.sub(r'[^0-9+\-*/().\s]', '', expression)
Sanitize(t) == SelectSeq(t, KeptBySanitizer)

\* The tokens of an expression as Python reads it: whitespace separates
\* tokens, a run of digits is one integer literal.
RECURSIVE DigitRunEnd(_, _)
DigitRunEnd(t, k) ==
    IF k < Len(t) /\ t[k + 1] \in Digits THEN DigitRunEnd(t, k + 1) ELSE k

RECURSIVE LiteralValue(_)
LiteralValue(ds) ==
    IF ds = <<>> THEN 0
    ELSE 10 * LiteralValue(SubSeq(ds, 1, Len(ds) - 1)) + DigitValue(ds[Len(ds)])

RECURSIVE TokensFrom(_, _)
TokensFrom(t, k) ==
    IF k > Len(t) THEN <<>>
    ELSE IF t[k] = " " THEN TokensFrom(t, k + 1)
    ELSE IF t[k] \in Digits
         THEN LET e == DigitRunEnd(t, k) IN
              <<[kind |-> "num", value |-> LiteralValue(SubSeq(t, k, e)),
                 zero_led |-> (e > k /\ t[k] = "0")]>> \o TokensFrom(t, e + 1)
    ELSE <<[kind |-> t[k], value |-> 0, zero_led |-> FALSE]>> \o TokensFrom(t, k + 1)

\* The expressions whose value is computed here: integer literals joined by
\* + and *. Every other string is left to Python ("other": a value or an
\* exception, each answered with one edit, 620-635).
InFragment(toks) ==
    /\ Len(toks) % 2 = 1
    /\ \A k \in 1..Len(toks) :
         IF k % 2 = 1 THEN toks[k].kind = "num" /\ ~toks[k].zero_led
         ELSE toks[k].kind \in {"+", "*"}

\* The value of the tokens from position k on, given the sum of the terms
\* completed so far and the product of the factors of the current term.
RECURSIVE SumOfProducts(_, _, _, _)
SumOfProducts(toks, k, sum, prod) ==
    IF k > Len(toks) THEN sum + prod
    ELSE IF toks[k].kind = "*" THEN SumOfProducts(toks, k + 2, sum, prod * toks[k + 1].value)
    ELSE SumOfProducts(toks, k + 2, sum + prod, toks[k + 1].value)

\* eval(sanitized_expression) with the reply it leads to.
Eval(t) ==
    LET toks == TokensFrom(t, 1) IN
    IF InFragment(toks)
    THEN [kind |-> "result", value |-> SumOfProducts(toks, 2, 0, toks[1].value)]
    ELSE [kind |-> "other", value |-> 0]

CalcAlphabet == {"2", "3", "+", "*", ";", "a", " "}

RECURSIVE TextsUpTo(_, _)
TextsUpTo(alphabet, n) ==
    IF n = 0 THEN {<<>>}
    ELSE LET shorter == TextsUpTo(alphabet, n - 1) IN
         shorter \cup {Append(t, c) : t \in shorter, c \in alphabet}

\* extract_arg (377-383) joins the words of the command with single spaces:
\* its result has no space at either end and no two spaces in a row.
IsJoinedArg(t) ==
    /\ Len(t) > 0 => (t[1] # " " /\ t[Len(t)] # " ")
    /\ \A k \in 1..(Len(t) - 1) : ~(t[k] = " " /\ t[k + 1] = " ")

ExampleExpr ==
    <<"2", "+", "2", "*", "3", ";", " ", "i", "m", "p", "o", "r", "t", " ", "o", "s">>

CalcExprs == {t \in TextsUpTo(CalcAlphabet, MaxExprLen) : IsJoinedArg(t)} \cup {ExampleExpr}

NoCalcReply == [kind |-> "none", value |-> 0]

\* The calc state while another subsystem is explored.
CalcIdle ==
    /\ cExpr = <<>>
    /\ cDone = TRUE
    /\ cEval = <<>>
    /\ cReply = NoCalcReply

\* A .calc command has been received.
InitCalc ==
    /\ cExpr \in CalcExprs
    /\ cDone = FALSE
    /\ cEval = <<>>
    /\ cReply = NoCalcReply

\* calc_command_handler (self2.py 599-635).
calc_command_handler ==
    /\ ~cDone
    /\ cDone' = TRUE
    /\ UNCHANGED cExpr
    /\ LET sanitized_expression == Sanitize(cExpr) IN
       CASE cExpr = <<>> ->
              \* 607-609: no argument
              cEval' = <<>> /\ cReply' = [kind |-> "hint", value |-> 0]
         [] sanitized_expression = <<>> ->
              \* 615-617
              cEval' = <<>> /\ cReply' = [kind |-> "invalid", value |-> 0]
         [] OTHER ->
              /\ cEval' = <<sanitized_expression>>
              /\ cReply' = Eval(sanitized_expression)
    /\ UNCHANGED otherThanCalc

NextCalc == calc_command_handler

(***************************************************************************)
(* parse_time_duration                                                     *)
(***************************************************************************)

MaxDurLen == 4                \* length of the enumerated duration strings

NoDuration == -1              \* the result None

\* Mutant: a day counts as an hour.
UnitSecondsDayAsHour(unit) ==
    CASE unit = "d" -> 3600 [] unit = "h" -> 3600 [] unit = "m" -> 60 [] unit = "s" -> 1

\* self2.py 2366-2373.
UnitSeconds(unit) ==
    CASE unit = "d" -> 86400 [] unit = "h" -> 3600 [] unit = "m" -> 60 [] unit = "s" -> 1

\* pattern.findall(duration_str) for (\d+)([dhms]), scanned from position k:
\* the matches, left to right and not overlapping. A run of digits matches
\* when a unit letter follows it; otherwise no part of the run matches.
RECURSIVE FindAll(_, _)
FindAll(t, k) ==
    IF k > Len(t) THEN <<>>
    ELSE IF t[k] \in Digits
         THEN LET e == DigitRunEnd(t, k) IN
              IF e < Len(t) /\ t[e + 1] \in {"d", "h", "m", "s"}
              THEN <<[value |-> LiteralValue(SubSeq(t, k, e)), unit |-> t[e + 1]]>>
                       \o FindAll(t, e + 2)
              ELSE FindAll(t, e + 1)
    ELSE FindAll(t, k + 1)

RECURSIVE TotalSeconds(_)
TotalSeconds(matches) ==
    IF matches = <<>> THEN 0
    ELSE matches[1].value * UnitSeconds(matches[1].unit) + TotalSeconds(Tail(matches))

\* parse_time_duration (self2.py 2352-2377), the timedelta given in seconds.
ParseTimeDuration(duration_str) ==
    LET matches == FindAll(LowerText(duration_str), 1) IN
    IF matches = <<>> THEN NoDuration
    ELSE IF TotalSeconds(matches) = 0 THEN NoDuration
    ELSE TotalSeconds(matches)

DurationAlphabet == {"0", "1", "3", "h", "s", "H", "x"}

DurationExamples ==
    {<<"1", "h", "3", "0", "m">>, <<"2", "d">>, <<"a", "b", "c">>, <<"1", "H", "3", "0", "M">>}

DurationStrings == TextsUpTo(DurationAlphabet, MaxDurLen) \cup DurationExamples

\* The state while another subsystem is explored.
DurationIdle ==
    /\ durStr = <<>>
    /\ durDone = TRUE
    /\ durResult = NoDuration

\* parse_time_duration has been called with a string.
InitDuration ==
    /\ durStr \in DurationStrings
    /\ durDone = FALSE
    /\ durResult = NoDuration

parse_time_duration ==
    /\ ~durDone
    /\ durDone' = TRUE
    /\ durResult' = ParseTimeDuration(durStr)
    /\ UNCHANGED <<durStr, otherThanDuration>>

NextDuration == parse_time_duration

(***************************************************************************)
(* require_admin_rights                                                    *)
(***************************************************************************)

Capabilities ==
    {"can_change_info", "can_delete_messages", "can_restrict_members", "can_pin_messages",
     "can_promote_members"}

\* The lists given to the decorator (640, 2563, 2919, 3040, 3093, ...).
RequiredLists ==
    {{"can_change_info"}, {"can_delete_messages"}, {"can_restrict_members"},
     {"can_pin_messages"}, {"can_promote_members"},
     {"can_delete_messages", "can_restrict_members"}}

MemberOutcomes == {"member", "ChatAdminRequired", "error"}

\* self2.py 333-345 and 352-364: the outcome of get_chat_member and of the
\* loop over the required capabilities.
MemberQuery(required, granted, outcome) ==
    IF outcome # "member" THEN outcome
    ELSE IF required \subseteq granted THEN "granted"
    ELSE "missing"

GateMessages ==
    [chat_type : DeliveredChatTypes, required : RequiredLists,
     granted : SUBSET Capabilities, outcome : MemberOutcomes]

NoGateMessage ==
    [chat_type |-> "private", required |-> {"can_delete_messages"}, granted |-> {},
     outcome |-> "error"]

\* The gate state while another subsystem is explored.
GateIdle ==
    /\ gMsg = NoGateMessage
    /\ gDone = TRUE
    /\ gInvoked = 0
    /\ gReplies = 0

\* A command of a wrapped handler has been received.
InitGate ==
    /\ gMsg \in GateMessages
    /\ gDone = FALSE
    /\ gInvoked = 0
    /\ gReplies = 0

\* wrapper (self2.py 327-364): every branch that returns early makes one
\* message.edit; otherwise func is awaited once.
wrapper ==
    /\ ~gDone
    /\ gDone' = TRUE
    /\ IF GateDelegates(gMsg.chat_type, MemberQuery(gMsg.required, gMsg.granted, gMsg.outcome))
       THEN gInvoked' = 1 /\ gReplies' = 0
       ELSE gInvoked' = 0 /\ gReplies' = 1
    /\ UNCHANGED <<gMsg, otherThanGate>>

NextGate == wrapper

(***************************************************************************)
(* Error handling of command handlers                                      *)
(***************************************************************************)

MaxWords == 4                 \* len(message.command) ranges over 1..MaxWords

Handlers == {"ping_command_handler", "remind_command_handler", "set_note_command_handler"}

\* Outcomes of one call of the transport (message.edit, send_chat_action) or
\* of the database.
CallOutcomes == {"ok", "FloodWait", "error"}

\* message.command is a list of str; a list has no attribute lower, so
\* args.lower() (2437) and duration_str.lower() (2354, with duration_str =
\* args of 2392) raise AttributeError.
ListHasLower == FALSE

HandlerCommands ==
    [handler : Handlers, words : 1..MaxWords,
     first : CallOutcomes,      \* the first transport call of the handler
     work : CallOutcomes,       \* its external work: chat action, database
     last : CallOutcomes,       \* the edit that reports success
     report : CallOutcomes]     \* the edit made inside an except block

NoCommand ==
    [handler |-> "ping_command_handler", words |-> 1, first |-> "ok", work |-> "ok",
     last |-> "ok", report |-> "ok"]

\* The run of a handler: whether an exception left it, whether a step
\* failed, and the number of edits made to report a failure.
Run(escaped, failed, msgs) == [escaped |-> escaped, failed |-> failed, msgs |-> msgs]

\* An except block whose only call is message.edit(...) with outcome o.
Reported(o) == Run(o # "ok", TRUE, 1)

\* A message.edit outside every try block (the usage hints, 2387-2389 and
\* 2434-2435): its exception leaves the handler.
UnguardedEdit(o) == IF o = "ok" THEN Run(FALSE, FALSE, 0) ELSE Run(TRUE, TRUE, 0)

\* ping_command_handler (472-505): every call sits in the try block; both
\* except blocks end in one message.edit.
PingRun(c) ==
    IF c.first = "ok" /\ c.work = "ok" /\ c.last = "ok" THEN Run(FALSE, FALSE, 0)
    ELSE Reported(c.report)

\* remind_command_handler (2379-2420).
RemindRun(c) ==
    IF c.words < 3 THEN UnguardedEdit(c.first)
    ELSE IF ~ListHasLower THEN Run(TRUE, TRUE, 0)     \* 2395 -> 2354, before the try
    ELSE IF c.work = "ok" /\ c.last = "ok" THEN Run(FALSE, FALSE, 0)
    ELSE Reported(c.report)

\* set_note_command_handler (2425-2467).
NoteRun(c) ==
    IF c.words < 3 THEN UnguardedEdit(c.first)
    ELSE IF ~ListHasLower THEN Run(TRUE, TRUE, 0)     \* 2437, before the try
    ELSE IF c.work = "ok" /\ c.last = "ok" THEN Run(FALSE, FALSE, 0)
    ELSE Reported(c.report)

HandlerRun(c) ==
    CASE c.handler = "ping_command_handler" -> PingRun(c)
      [] c.handler = "remind_command_handler" -> RemindRun(c)
      [] c.handler = "set_note_command_handler" -> NoteRun(c)

\* The state while another subsystem is explored.
HandlerIdle ==
    /\ hCmd = NoCommand
    /\ hDone = TRUE
    /\ hEscaped = FALSE
    /\ hFailed = FALSE
    /\ hFailureMsgs = 0

\* A command has been dispatched to its handler.
InitHandler ==
    /\ hCmd \in HandlerCommands
    /\ hDone = FALSE
    /\ hEscaped = FALSE
    /\ hFailed = FALSE
    /\ hFailureMsgs = 0

RunHandler ==
    /\ ~hDone
    /\ hDone' = TRUE
    /\ hEscaped' = HandlerRun(hCmd).escaped
    /\ hFailed' = HandlerRun(hCmd).failed
    /\ hFailureMsgs' = HandlerRun(hCmd).msgs
    /\ UNCHANGED <<hCmd, otherThanHandler>>

NextHandler == RunHandler

(***************************************************************************)
(* Concurrent auto-replies                                                 *)
(***************************************************************************)

MaxReplyHandlers == 2     \* afk_reply_handler invocations per behaviour
ReplyHandlers == 1..MaxReplyHandlers

\* Mutant: the timestamp is not written between the check and the await.
CooldownsAfterCheckUnwritten(last, user, t) == last

\* self2.py 771 (self.py 445): the only statement between the cooldown check
\* (767-769) and the first await (784).
CooldownsAfterCheck(last, user, t) == [last EXCEPT ![user] = t]

\* The state while another subsystem is explored.
RaceIdle ==
    /\ arTime = 0
    /\ arLast = EmptyCooldowns
    /\ arFrom = [h \in ReplyHandlers |-> 1]
    /\ arPc = [h \in ReplyHandlers |-> "done"]
    /\ arStart = [h \in ReplyHandlers |-> NoTime]
    /\ arPassed = [h \in ReplyHandlers |-> FALSE]
    /\ arOverlap = {}
    /\ arSent = [h \in ReplyHandlers |-> FALSE]

\* AFK is Active, the cooldown map is empty, and each handler is about to be
\* called with a private message of an ordinary user.
InitRace ==
    /\ arTime = 0
    /\ arLast = EmptyCooldowns
    /\ arFrom \in [ReplyHandlers -> Humans]
    /\ arPc = [h \in ReplyHandlers |-> "new"]
    /\ arStart = [h \in ReplyHandlers |-> NoTime]
    /\ arPassed = [h \in ReplyHandlers |-> FALSE]
    /\ arOverlap = {}
    /\ arSent = [h \in ReplyHandlers |-> FALSE]

\* The loop clock advances.
RaceTick ==
    /\ arTime + TickStep <= MaxTime
    /\ arTime' = arTime + TickStep
    /\ UNCHANGED <<arLast, arFrom, arPc, arStart, arPassed, arOverlap, arSent, otherThanRace>>

\* afk_reply_handler from its call to its return or its first await
\* (self2.py 755-784): these statements contain no await, so the event loop
\* runs them as one step.
afk_reply_handler(h) ==
    /\ arPc[h] = "new"
    /\ LET u == arFrom[h]
           pass == ~InCooldown(arLast, u, arTime)
       IN
       /\ arLast' = IF pass THEN CooldownsAfterCheck(arLast, u, arTime) ELSE arLast
       /\ arPc' = [arPc EXCEPT ![h] = IF pass THEN "reply_text" ELSE "done"]
       /\ arPassed' = [arPassed EXCEPT ![h] = pass]
    /\ arStart' = [arStart EXCEPT ![h] = arTime]
    /\ arOverlap' = arOverlap \cup {<<h, g>> : g \in {x \in ReplyHandlers : arPc[x] = "reply_text"}}
    /\ UNCHANGED <<arTime, arFrom, arSent, otherThanRace>>

\* `await message.reply_text(response)` returns or raises (784-788); the
\* handler ends either way.
ReplyTextReturns(h, ok) ==
    /\ arPc[h] = "reply_text"
    /\ arPc' = [arPc EXCEPT ![h] = "done"]
    /\ arSent' = [arSent EXCEPT ![h] = ok]
    /\ UNCHANGED <<arTime, arLast, arFrom, arStart, arPassed, arOverlap, otherThanRace>>

NextRace ==
    \/ RaceTick
    \/ \E h \in ReplyHandlers : afk_reply_handler(h)
    \/ \E h \in ReplyHandlers, ok \in BOOLEAN : ReplyTextReturns(h, ok)

(***************************************************************************)
(* get_target_user_id                                                      *)
(***************************************************************************)

MaxUserId == 2            \* user ids range over 1..MaxUserId
UserIds == 1..MaxUserId

\* Outcomes of app.get_users(handle): the user, or one of the errors the
\* transport raises for a handle it cannot resolve or a call it cannot make.
LookupOutcomes ==
    {"user", "PeerIdInvalid", "UsernameNotOccupied", "UsernameInvalid", "FloodWait"}

TargetMessages ==
    [reply : {"none", "from_user", "no_from_user"},   \* reply_to_message and its sender
     sender : UserIds,                                \* reply_to_message.from_user.id
     arg : {"none", "integer", "handle"},             \* message.command[1]
     value : UserIds,                                 \* the integer, or the id the handle belongs to
     lookup : LookupOutcomes]

NoTargetMessage ==
    [reply |-> "none", sender |-> 1, arg |-> "none", value |-> 1, lookup |-> "user"]

Returned(id) == [kind |-> "id", id |-> id]
ReturnedNone == [kind |-> "None", id |-> 0]
Raised == [kind |-> "raised", id |-> 0]

\* self2.py 389-401: the sender of the replied-to message; else int() of the
\* first argument; else get_users of it, where only PeerIdInvalid is caught.
TargetUserId(m) ==
    IF m.reply = "from_user" THEN Returned(m.sender)
    ELSE IF m.arg = "integer" THEN Returned(m.value)
    ELSE IF m.arg = "handle"
         THEN CASE m.lookup = "user" -> Returned(m.value)
                [] m.lookup = "PeerIdInvalid" -> ReturnedNone
                [] OTHER -> Raised
    ELSE ReturnedNone

\* The state while another subsystem is explored.
TargetIdle ==
    /\ tgMsg = NoTargetMessage
    /\ tgDone = TRUE
    /\ tgResult = ReturnedNone

\* A handler is about to call the function on its message.
InitTarget ==
    /\ tgMsg \in TargetMessages
    /\ tgDone = FALSE
    /\ tgResult = ReturnedNone

get_target_user_id ==
    /\ ~tgDone
    /\ tgDone' = TRUE
    /\ tgResult' = TargetUserId(tgMsg)
    /\ UNCHANGED <<tgMsg, otherThanTarget>>

NextTarget == get_target_user_id

(***************************************************************************)
(* gban                                                                    *)
(***************************************************************************)

Dialogs == {1, 2}     \* the conversations client.get_dialogs() yields, in this order

\* dialog.chat.type: the strings the test at 3289 is written for and the
\* members of ChatType that Pyrogram 2.x delivers.
DialogChatTypes ==
    {"group", "channel", "private", "ChatType.GROUP", "ChatType.SUPERGROUP", "ChatType.CHANNEL"}

\* check_userbot_rights_in_chat (425-441) for ['can_restrict_members']:
\* True when get_chat_member returns a member on which the attribute is
\* truthy; False when it is not, and when the query raises.
RightsOutcomes == {"granted", "missing", "error"}
check_userbot_rights_in_chat(rights) == rights = "granted"

GbanCommands ==
    [chat : Dialogs,                               \* message.chat.id
     type : [Dialogs -> DialogChatTypes],
     rights : [Dialogs -> RightsOutcomes],
     ban : [Dialogs -> {"ok", "error"}],           \* outcome of ban_chat_member
     edit : {"ok", "error"},                       \* outcome of message.edit (3283)
     reply : {"ok", "error"}]                      \* outcome of the message.reply calls

NoGban ==
    [chat |-> 1, type |-> [d \in Dialogs |-> "private"],
     rights |-> [d \in Dialogs |-> "missing"], ban |-> [d \in Dialogs |-> "ok"],
     edit |-> "ok", reply |-> "ok"]

\* 3289: the test that selects a dialog for the ban.
DialogSelected(c, d) ==
    c.type[d] \in {"group", "supergroup", "channel"} /\ d # c.chat

\* 3290-3298: the dialogs of the loop in which ban_chat_member is called.
BanCalls(c) ==
    {d \in Dialogs : DialogSelected(c, d) /\ check_userbot_rights_in_chat(c.rights[d])}

\* The state while another subsystem is explored.
GbanIdle ==
    /\ gbCmd = NoGban
    /\ gbDone = TRUE
    /\ gbBlacklist = FALSE
    /\ gbAttempts = {}
    /\ gbFailed = FALSE

\* The owner has sent .gban with a target that get_target_user_id resolved
\* and that is not the account itself.
InitGban ==
    /\ gbCmd \in GbanCommands
    /\ gbDone = FALSE
    /\ gbBlacklist \in BOOLEAN
    /\ gbAttempts = {}
    /\ gbFailed = FALSE

\* gban_command_handler (3264-3303): the row is committed (3282) before the
\* first await; an exception of message.edit or message.reply reaches the
\* outer handler, the exceptions inside the loop are caught per dialog.
gban_command_handler ==
    /\ ~gbDone
    /\ gbDone' = TRUE
    /\ gbBlacklist' = TRUE
    /\ gbAttempts' = IF gbCmd.edit = "ok" /\ gbCmd.reply = "ok" THEN BanCalls(gbCmd) ELSE {}
    /\ gbFailed' = (gbCmd.edit # "ok" \/ gbCmd.reply # "ok")
    /\ UNCHANGED <<gbCmd, otherThanGban>>

NextGban == gban_command_handler

(***************************************************************************)
(* ban and mute                                                            *)
(***************************************************************************)

MaxTokens == 2            \* tokens after the target

\* Tokens of a command line: two durations, a word, a number without unit.
RestrictTokens == {<<"1", "h">>, <<"3", "0", "s">>, <<"x">>, <<"1", "0">>}

TokenLists == UNION {[1..n -> RestrictTokens] : n \in 0..MaxTokens}

\* Outcomes of client.ban_chat_member / client.restrict_chat_member.
RestrictOutcomes == {"ok", "UserAdminInvalid", "BadRequest", "error"}

RestrictCommands ==
    [handler : {"ban_command_handler", "mute_command_handler"},
     target : {"reply", "argument"},     \* the target is the replied-to sender, or command[1]
     tokens : TokenLists,                \* the words after the command and the target argument
     now : 0..MaxClock,                  \* datetime.utcnow()
     call : RestrictOutcomes]

NoRestrict ==
    [handler |-> "ban_command_handler", target |-> "reply", tokens |-> <<>>, now |-> 0,
     call |-> "ok"]

\* message.command: the command word, the target argument if there is one,
\* and the tokens.
CommandWords(c) == 1 + (IF c.target = "argument" THEN 1 ELSE 0) + Len(c.tokens)

NoCall == [called |-> FALSE, until_date |-> NoTime]

\* The local variable `duration` at 2609 / 2741: it is assigned at 2599 /
\* 2733 only, inside `if duration_str:`; when duration_str is None the name
\* is unbound and reading it raises UnboundLocalError.
DurationLocal(duration_str) ==
    IF duration_str = <<>> THEN "unbound" ELSE "bound"

\* The state while another subsystem is explored.
RestrictIdle ==
    /\ rsCmd = NoRestrict
    /\ rsDone = TRUE
    /\ rsCall = NoCall
    /\ rsReason = <<>>
    /\ rsReport = "none"
    /\ rsEscaped = FALSE

\* The gate has called the handler; get_target_user_id has returned a user
\* that is not the account itself.
InitRestrict ==
    /\ rsCmd \in RestrictCommands
    /\ rsDone = FALSE
    /\ rsCall = NoCall
    /\ rsReason = <<>>
    /\ rsReport = "none"
    /\ rsEscaped = FALSE

\* ban_command_handler 2581-2627 and mute_command_handler 2716-2762, which
\* are the same statements. With more than two words, possible_duration_str
\* is the list args (2589, 2723) and .lower() raises AttributeError outside
\* every try block. Otherwise duration_str stays None, reason_parts stays
\* empty and the call is made with until_date = None; when it returns, the
\* f-string of time_info reads `duration` (2609, 2741), and the exception is
\* caught by `except Exception`, whose edit reports an error. The edits are
\* taken to go through.
restrict_command_handler ==
    /\ ~rsDone
    /\ rsDone' = TRUE
    /\ IF CommandWords(rsCmd) > 2
       THEN /\ rsEscaped' = TRUE
            /\ rsCall' = NoCall
            /\ rsReason' = <<>>
            /\ rsReport' = "none"
       ELSE /\ rsEscaped' = FALSE
            /\ rsCall' = [called |-> TRUE, until_date |-> NoTime]
            /\ rsReason' = <<>>
            /\ rsReport' =
                 IF rsCmd.call = "ok" /\ DurationLocal(<<>>) = "bound" THEN "success"
                 ELSE "error"
    /\ UNCHANGED <<rsCmd, otherThanRestrict>>

NextRestrict == restrict_command_handler

(***************************************************************************)
(* remind and scheduled                                                    *)
(***************************************************************************)

\* The word given as duration: valid ones, a word without any term, a zero.
DurationWords == {<<"1", "h">>, <<"3", "0", "s">>, <<"x">>, <<"0", "s">>}

CreateTexts == {"Take a break", "Hello there!"}

CreateCommands ==
    [handler : {"remind_command_handler", "scheduled_message_command_handler"},
     words : 1..MaxWords,           \* len(message.command)
     duration : DurationWords,      \* message.command[1], when there is one
     text : CreateTexts,            \* " ".join(message.command[2:]), when there is one
     now : 0..MaxClock]             \* datetime.utcnow()

NoCreate ==
    [handler |-> "remind_command_handler", words |-> 1, duration |-> <<"x">>,
     text |-> "Take a break", now |-> 0]

\* parse_time_duration(duration_str) as the two handlers call it (2392-2395,
\* 3802-3805): duration_str is the list args, and the first statement of the
\* function, duration_str.lower() (2354), raises AttributeError.
ParseTimeDurationOfList == "AttributeError"

\* The state while another subsystem is explored.
CreateIdle ==
    /\ crCmd = NoCreate
    /\ crDone = TRUE
    /\ crRows = {}
    /\ crEdits = <<>>
    /\ crEscaped = FALSE

\* The owner has sent the command; the table holds no row of this command.
InitCreate ==
    /\ crCmd \in CreateCommands
    /\ crDone = FALSE
    /\ crRows = {}
    /\ crEdits = <<>>
    /\ crEscaped = FALSE

\* remind_command_handler (2379-2420) and scheduled_message_command_handler
\* (3789-3829): the usage hint for fewer than three words; otherwise the
\* call of parse_time_duration at 2395 / 3805, which is outside the try
\* block that starts at 2402 / 3812.
create_command_handler ==
    /\ ~crDone
    /\ crDone' = TRUE
    /\ IF crCmd.words < 3
       THEN crEdits' = <<"usage">> /\ crEscaped' = FALSE /\ crRows' = crRows
       ELSE IF ParseTimeDurationOfList = "AttributeError"
            THEN crEdits' = <<>> /\ crEscaped' = TRUE /\ crRows' = crRows
            ELSE IF ParseTimeDuration(crCmd.duration) = NoDuration
                 THEN crEdits' = <<"invalid">> /\ crEscaped' = FALSE /\ crRows' = crRows
                 ELSE /\ crRows' = crRows \cup
                            {[due |-> crCmd.now + ParseTimeDuration(crCmd.duration),
                              text |-> crCmd.text, delivered |-> FALSE]}
                      /\ crEdits' = <<"confirmation">>
                      /\ crEscaped' = FALSE
    /\ UNCHANGED <<crCmd, otherThanCreate>>

NextCreate == create_command_handler

(***************************************************************************)
(* Chat settings                                                           *)
(***************************************************************************)

MaxSettingCmds == 3       \* settings commands per behaviour
SettingSlots == {1, 2}    \* positions of the handler invocations in flight at once

SettingChats == {1, 2}
SettingChatTypes == {"supergroup", "ChatType.SUPERGROUP"}
SettingHandlers ==
    {"set_welcome_message_handler", "antilink_command_handler", "antiflood_command_handler"}
SettingKeys ==
    {"welcome_message", "antilink_status", "antiflood_status", "antiflood_threshold"}

\* extract_arg(message): nothing, or the text after the command.
SettingArgs == {"none", "on", "off"}

Unset == [value |-> "unset", writes |-> 0]

\* Mutant: the handler adds a row without looking for an existing one.
UpsertAlwaysAdds(rows, chat, key, value) ==
    Append(rows, [chat_id |-> chat, key |-> key, value |-> value])

\* 3403-3416 (3506-3518): the first row of (chat_id, key) gets the value, or
\* a new row is added, and the Session is committed.
Upsert(rows, chat, key, value) ==
    LET found == {k \in 1..Len(rows) : rows[k].chat_id = chat /\ rows[k].key = key} IN
    IF found # {}
    THEN LET first == CHOOSE k \in found : \A j \in found : k <= j IN
         [rows EXCEPT ![first].value = value]
    ELSE Append(rows, [chat_id |-> chat, key |-> key, value |-> value])

\* Whether the invocation reaches its Session, and with which key and value.
\* set_welcome_message_handler: the gate (3385), the chat type (3392), a
\* non-empty argument (3396-3399). antilink_command_handler: the chat type
\* (3495), the argument on or off (3499-3502). antiflood_command_handler:
\* `args not in ["on", "off"]` (3567) compares the list message.command with
\* the two strings and is always true, so the handler always returns there.
SettingWrite(c, type, gate) ==
    CASE c.handler = "set_welcome_message_handler" ->
           [writes |-> GateDelegates(type, gate) /\ type \in {"group", "supergroup"}
                           /\ c.arg # "none",
            key |-> "welcome_message", value |-> c.arg]
      [] c.handler = "antilink_command_handler" ->
           [writes |-> type \in {"group", "supergroup"} /\ c.arg \in {"on", "off"},
            key |-> "antilink_status", value |-> IF c.arg = "on" THEN "True" ELSE "False"]
      [] OTHER ->
           [writes |-> FALSE, key |-> "antiflood_status", value |-> "False"]

\* The state while another subsystem is explored.
SettingsIdle ==
    /\ csType = [c \in SettingChats |-> "private"]
    /\ csRows = <<>>
    /\ csInflight = <<>>
    /\ csCmds = 0
    /\ csLast = [p \in SettingChats \X SettingKeys |-> Unset]

\* create_db_and_tables on an empty database.
InitSettings ==
    /\ csType \in [SettingChats -> SettingChatTypes]
    /\ csRows = <<>>
    /\ csInflight = <<>>
    /\ csCmds = 0
    /\ csLast = [p \in SettingChats \X SettingKeys |-> Unset]

\* The dispatcher starts a handler for a settings command of the owner; the
\* handler is suspended before its Session (in the gate's get_chat_member,
\* 335) or about to run.
SettingDispatch(handler, chat, arg) ==
    /\ csCmds < MaxSettingCmds
    /\ Len(csInflight) < Cardinality(SettingSlots)
    /\ csCmds' = csCmds + 1
    /\ csInflight' = Append(csInflight,
                            [handler |-> handler, chat |-> chat, arg |-> arg, pc |-> "start"])
    /\ UNCHANGED <<csType, csRows, csLast, otherThanSettings>>

\* The handler runs from its checks to its next await, message.edit: the
\* select, the change and session.commit() contain no await. `db` is the
\* outcome of the commit; when it raises, the except block edits.
SettingBody(k, gate, db) ==
    /\ k \in 1..Len(csInflight)
    /\ csInflight[k].pc = "start"
    /\ LET c == csInflight[k]
           w == SettingWrite(c, csType[c.chat], gate)
       IN
       IF w.writes /\ db = "ok"
       THEN /\ csRows' = Upsert(csRows, c.chat, w.key, w.value)
            /\ csLast' = [csLast EXCEPT ![<<c.chat, w.key>>] =
                             [value |-> w.value, writes |-> IF @.writes < 2 THEN @.writes + 1 ELSE 2]]
       ELSE UNCHANGED <<csRows, csLast>>
    /\ csInflight' = [csInflight EXCEPT ![k].pc = "edit"]
    /\ UNCHANGED <<csType, csCmds, otherThanSettings>>

\* message.edit returns or raises; the handler ends.
SettingEditReturns(k) ==
    /\ k \in 1..Len(csInflight)
    /\ csInflight[k].pc = "edit"
    /\ csInflight' = RemoveAt(csInflight, k)
    /\ UNCHANGED <<csType, csRows, csCmds, csLast, otherThanSettings>>

NextSettings ==
    \/ \E h \in SettingHandlers, chat \in SettingChats, arg \in SettingArgs :
           SettingDispatch(h, chat, arg)
    \/ \E k \in SettingSlots, gate \in {"granted", "missing"}, db \in {"ok", "error"} :
           SettingBody(k, gate, db)
    \/ \E k \in SettingSlots : SettingEditReturns(k)

(***************************************************************************)
(* Specifications                                                          *)
(***************************************************************************)

\* Each specification starts one subsystem from its initial states and holds
\* the others at rest.
StartDelivery == InitDelivery /\ AfkIdle /\ DispatchIdle /\ WarnIdle /\ PurgeIdle /\ CalcIdle /\ DurationIdle /\ GateIdle /\ HandlerIdle /\ RaceIdle /\ TargetIdle /\ GbanIdle /\ RestrictIdle /\ CreateIdle /\ StopIdle /\ SettingsIdle
StartAfk == InitAfk /\ DeliveryIdle /\ DispatchIdle /\ WarnIdle /\ PurgeIdle /\ CalcIdle /\ DurationIdle /\ GateIdle /\ HandlerIdle /\ RaceIdle /\ TargetIdle /\ GbanIdle /\ RestrictIdle /\ CreateIdle /\ StopIdle /\ SettingsIdle
StartDispatch == InitDispatch /\ DeliveryIdle /\ AfkIdle /\ WarnIdle /\ PurgeIdle /\ CalcIdle /\ DurationIdle /\ GateIdle /\ HandlerIdle /\ RaceIdle /\ TargetIdle /\ GbanIdle /\ RestrictIdle /\ CreateIdle /\ StopIdle /\ SettingsIdle
StartWarn == InitWarn /\ DeliveryIdle /\ AfkIdle /\ DispatchIdle /\ PurgeIdle /\ CalcIdle /\ DurationIdle /\ GateIdle /\ HandlerIdle /\ RaceIdle /\ TargetIdle /\ GbanIdle /\ RestrictIdle /\ CreateIdle /\ StopIdle /\ SettingsIdle
StartPurge == InitPurge /\ DeliveryIdle /\ AfkIdle /\ DispatchIdle /\ WarnIdle /\ CalcIdle /\ DurationIdle /\ GateIdle /\ HandlerIdle /\ RaceIdle /\ TargetIdle /\ GbanIdle /\ RestrictIdle /\ CreateIdle /\ StopIdle /\ SettingsIdle
StartCalc == InitCalc /\ DeliveryIdle /\ AfkIdle /\ DispatchIdle /\ WarnIdle /\ PurgeIdle /\ DurationIdle /\ GateIdle /\ HandlerIdle /\ RaceIdle /\ TargetIdle /\ GbanIdle /\ RestrictIdle /\ CreateIdle /\ StopIdle /\ SettingsIdle
StartDuration == InitDuration /\ DeliveryIdle /\ AfkIdle /\ DispatchIdle /\ WarnIdle /\ PurgeIdle /\ CalcIdle /\ GateIdle /\ HandlerIdle /\ RaceIdle /\ TargetIdle /\ GbanIdle /\ RestrictIdle /\ CreateIdle /\ StopIdle /\ SettingsIdle
StartGate == InitGate /\ DeliveryIdle /\ AfkIdle /\ DispatchIdle /\ WarnIdle /\ PurgeIdle /\ CalcIdle /\ DurationIdle /\ HandlerIdle /\ RaceIdle /\ TargetIdle /\ GbanIdle /\ RestrictIdle /\ CreateIdle /\ StopIdle /\ SettingsIdle
StartHandler == InitHandler /\ DeliveryIdle /\ AfkIdle /\ DispatchIdle /\ WarnIdle /\ PurgeIdle /\ CalcIdle /\ DurationIdle /\ GateIdle /\ RaceIdle /\ TargetIdle /\ GbanIdle /\ RestrictIdle /\ CreateIdle /\ StopIdle /\ SettingsIdle
StartRace == InitRace /\ DeliveryIdle /\ AfkIdle /\ DispatchIdle /\ WarnIdle /\ PurgeIdle /\ CalcIdle /\ DurationIdle /\ GateIdle /\ HandlerIdle /\ TargetIdle /\ GbanIdle /\ RestrictIdle /\ CreateIdle /\ StopIdle /\ SettingsIdle
StartTarget == InitTarget /\ DeliveryIdle /\ AfkIdle /\ DispatchIdle /\ WarnIdle /\ PurgeIdle /\ CalcIdle /\ DurationIdle /\ GateIdle /\ HandlerIdle /\ RaceIdle /\ GbanIdle /\ RestrictIdle /\ CreateIdle /\ StopIdle /\ SettingsIdle
StartGban == InitGban /\ DeliveryIdle /\ AfkIdle /\ DispatchIdle /\ WarnIdle /\ PurgeIdle /\ CalcIdle /\ DurationIdle /\ GateIdle /\ HandlerIdle /\ RaceIdle /\ TargetIdle /\ RestrictIdle /\ CreateIdle /\ StopIdle /\ SettingsIdle
StartRestrict == InitRestrict /\ DeliveryIdle /\ AfkIdle /\ DispatchIdle /\ WarnIdle /\ PurgeIdle /\ CalcIdle /\ DurationIdle /\ GateIdle /\ HandlerIdle /\ RaceIdle /\ TargetIdle /\ GbanIdle /\ CreateIdle /\ StopIdle /\ SettingsIdle
StartCreate == InitCreate /\ DeliveryIdle /\ AfkIdle /\ DispatchIdle /\ WarnIdle /\ PurgeIdle /\ CalcIdle /\ DurationIdle /\ GateIdle /\ HandlerIdle /\ RaceIdle /\ TargetIdle /\ GbanIdle /\ RestrictIdle /\ StopIdle /\ SettingsIdle
StartSettings == InitSettings /\ DeliveryIdle /\ AfkIdle /\ DispatchIdle /\ WarnIdle /\ PurgeIdle /\ CalcIdle /\ DurationIdle /\ GateIdle /\ HandlerIdle /\ RaceIdle /\ TargetIdle /\ GbanIdle /\ RestrictIdle /\ CreateIdle /\ StopIdle

SpecDelivery == StartDelivery /\ [][NextDelivery]_vars

\* The event loop runs each task whenever it is ready (the sleeps and the
\* sends return); which outcome a send has is up to the transport.
SpecDeliveryForever ==
    /\ StartDelivery
    /\ [][NextDeliveryForever]_vars
    /\ WF_vars(scheduled_message_task)
    /\ WF_vars(reminder_task)

SpecDeliveryStops == StartDelivery /\ [][NextDeliveryStops]_vars

SpecAfk == StartAfk /\ [][NextAfk]_vars

SpecDispatch == StartDispatch /\ [][NextDispatch]_vars

SpecWarn == StartWarn /\ [][NextWarn]_vars

SpecPurge == StartPurge /\ [][NextPurge]_vars

SpecCalc == StartCalc /\ [][NextCalc]_vars

SpecDuration == StartDuration /\ [][NextDuration]_vars

SpecGate == StartGate /\ [][NextGate]_vars

SpecHandler == StartHandler /\ [][NextHandler]_vars

SpecRace == StartRace /\ [][NextRace]_vars

SpecTarget == StartTarget /\ [][NextTarget]_vars

SpecGban == StartGban /\ [][NextGban]_vars

SpecRestrict == StartRestrict /\ [][NextRestrict]_vars

SpecCreate == StartCreate /\ [][NextCreate]_vars

SpecSettings == StartSettings /\ [][NextSettings]_vars

(***************************************************************************)
(* Claims                                                                  *)
(***************************************************************************)

\* C1: no Reminder and no ScheduledMessage is successfully sent more than once.
C1_AtMostOnceSent ==
    /\ \A i \in RemIds : remSent[i] <= 1
    /\ \A i \in SchIds : schSent[i] <= 1

\* C2: the persisted delivered flag is monotonic: every row starts as not
\* delivered, only the commit of a delivery loop changes a flag, a flag
\* committed as delivered is never reverted, and a row committed as
\* delivered is never among the rows a poll cycle has selected.
C2_Step ==
    /\ \A i \in RemIds : ~remDb[i].is_active => (~remDb'[i].is_active /\ i \notin remTodo')
    /\ \A i \in SchIds : schDb[i].is_sent => (schDb'[i].is_sent /\ i \notin schTodo')
    /\ remDb' # remDb => (remPc = "loop" /\ remTodo = {} /\ remPc' = "sleep")
    /\ schDb' # schDb => (schPc = "loop" /\ schTodo = {} /\ schPc' = "sleep")

C2_DeliveredMonotonic ==
    /\ \A i \in RemIds : remDb[i].is_active
    /\ \A i \in SchIds : ~schDb[i].is_sent
    /\ [][C2_Step]_vars

\* A later poll cycle of each loop runs while a row of its table is committed
\* as delivered and another row is selected.
C2_Witness ==
    /\ \E i \in RemIds : ~remDb[i].is_active /\ remPc = "loop" /\ remTodo # {}
    /\ \E i \in SchIds : schDb[i].is_sent /\ schPc = "loop" /\ schTodo # {}

\* C3 (as claimed): while AFK is Active, every counterpart that has sent a
\* qualifying message in its current cooldown window has been sent exactly
\* one auto-reply in that window.
C3_OneReplyPerWindow ==
    \A u \in Counterparts : winStart[u] # NoTime => winReplies[u] = 1

\* C3 (amended): the same for every counterpart that is not a bot.
C3_OneReplyPerWindowHumans ==
    \A u \in Humans : winStart[u] # NoTime => winReplies[u] = 1

\* A counterpart was answered in its first window, sent a message after the
\* window had elapsed, which opened its second window and was answered, and
\* then sent another message within that second window.
C3_Witness ==
    \E u \in Humans :
        /\ winCount[u] = 2 /\ winMsgs[u] = 2 /\ winReplies[u] = 1
        /\ lastReply[u] = winStart[u] /\ winStart[u] >= AFK_MESSAGE_COOLDOWN

\* C4 (as claimed): no counterpart is sent two auto-replies less than one
\* cooldown window apart.
C4_NeverTwoRepliesInWindow == ~closeAny

\* C4 (amended): no counterpart is sent two auto-replies less than one
\* cooldown window apart unless an .afk toggle or a restart of the process
\* lies between the two.
C4_NeverTwoRepliesInWindowSamePeriod == ~closeSamePeriod

\* Two auto-replies went to one counterpart within one Active period.
C4_Witness ==
    \E u \in Humans : winCount[u] = 2 /\ periodLast[u] = winStart[u] /\ periodLast[u] > 0

\* C5: right after an .afk toggle, in either direction, the cooldown map is empty.
C5_MapEmptyAfterToggle ==
    lastToggle # "none" => AFK_STATUS.last_afk_message_time = EmptyCooldowns

\* AFK was entered again after a period in which an auto-reply was sent.
C5_Witness ==
    /\ lastToggle = "on"
    /\ afkCmds >= 3
    /\ \E u \in Humans : lastReply[u] # NoTime

\* AFK was left after a period in which an auto-reply was sent.
C6_Witness ==
    /\ ~AFK_STATUS.is_afk
    /\ lastToggle = "off"
    /\ \E u \in Humans : lastReply[u] # NoTime

\* C6: is_afk = False implies reason is None, start_time is None and the
\* cooldown map is empty.
C6_InactiveIsCleared ==
    ~AFK_STATUS.is_afk =>
        /\ AFK_STATUS.reason = None
        /\ AFK_STATUS.start_time = NoTime
        /\ AFK_STATUS.last_afk_message_time = EmptyCooldowns

\* The first token of a text: its characters up to the first whitespace.
FirstToken(t) ==
    LET spaces == {k \in 1..Len(t) : t[k] = " "} IN
    IF spaces = {} THEN t
    ELSE SubSeq(t, 1, (CHOOSE k \in spaces : \A j \in spaces : k <= j) - 1)

CommandRegistrations == {k \in 1..Len(Registry) : Registry[k].kind = "command"}

\* C7: a message whose sender is not the owner runs no command handler; it
\* reaches a passive listener or nothing.
C7_OnlyOwnerRunsCommands ==
    dMsg.from_user # Owner => dRan \in PassiveListeners \cup {NoHandler}

\* A message of another user whose text is a command ran a passive listener.
C7_Witness ==
    /\ dMsg.from_user = 1
    /\ dMsg.text = <<".", "p", "i", "n", "g">>
    /\ dRan = "antilink_message_listener"

DiffersInCaseOnly(text, T) ==
    /\ FirstToken(text) # Prefix \o T
    /\ LowerText(FirstToken(text)) = Prefix \o T

\* C9 (as claimed): an owner message whose token differs from a registered
\* token only in letter case runs no handler.
C9_CaseSensitive ==
    dMsg.from_user = Owner =>
        \A k \in CommandRegistrations : \A T \in Registry[k].commands :
            DiffersInCaseOnly(dMsg.text, T) => dRan = NoHandler

\* C9 (amended): an owner message whose token differs from a registered token
\* only in letter case runs the handler of that token.
C9_CaseInsensitive ==
    dMsg.from_user = Owner =>
        \A k \in CommandRegistrations : \A T \in Registry[k].commands :
            DiffersInCaseOnly(dMsg.text, T) => dRan = Registry[k].name

\* The owner sent .PING and the handler of ping ran.
C9_Witness ==
    /\ dMsg.from_user = Owner
    /\ dMsg.text = <<".", "P", "I", "N", "G">>
    /\ dRan = "ping_command_handler"

InGroupChat(m) ==
    m.chat_type \in {"group", "supergroup", "ChatType.GROUP", "ChatType.SUPERGROUP"}

\* The command is one the claim is about: sent in a group where the account
\* may delete messages, replying to a message, with a count N >= 1 or none.
PurgeWellFormed(m) ==
    /\ InGroupChat(m) /\ m.query = "granted"
    /\ m.reply_to # NoReply
    /\ (m.arg.kind = "none" \/ (m.arg.kind = "int" /\ m.arg.value >= 1))

\* The count N of a well-formed command: 1 when none is given.
ClaimedCount(m) == IF m.arg.kind = "int" THEN m.arg.value ELSE 1

\* The count is zero, negative or not an integer.
InvalidCount(m) == m.arg.kind = "text" \/ (m.arg.kind = "int" /\ m.arg.value <= 0)

\* C11: a purge replying to X with count N >= 1 deletes exactly the command
\* message and the N newest existing messages with id <= X.
C11_PurgeDeletesNewest ==
    (pDone /\ PurgeWellFormed(pMsg)) =>
        pCalls = << {pMsg.id} \cup
                    Newest({i \in pMsg.existing : i <= pMsg.reply_to}, ClaimedCount(pMsg)) >>

\* C12: a purge whose count is zero, negative or not an integer, and a purge
\* that replies to no message, issues no delete_messages call and makes one
\* edit of the command message.
C12_PurgeRejects ==
    (pDone /\ pMsg.id # 0 /\ (pMsg.reply_to = NoReply \/ InvalidCount(pMsg))) =>
        (pCalls = <<>> /\ pEdits = 1 /\ pSends = 0)

\* A purge whose count is no integer passed the gate, replied to a message
\* and was answered with the hint.
C12_Witness ==
    /\ pDone
    /\ GateDelegates(pMsg.chat_type, pMsg.query)
    /\ pMsg.reply_to # NoReply
    /\ pMsg.arg.kind = "text"
    /\ pCalls = <<>> /\ pEdits = 1

\* The characters the claim allows in the evaluated string.
ClaimedAllowed == Digits \cup {" ", "+", "-", "*", "/", "(", ")", "."}

\* A text with every character outside the allowed set removed, in order.
RECURSIVE WithoutDisallowed(_)
WithoutDisallowed(t) ==
    IF t = <<>> THEN <<>>
    ELSE IF t[1] \in ClaimedAllowed THEN <<t[1]>> \o WithoutDisallowed(Tail(t))
    ELSE WithoutDisallowed(Tail(t))

\* A text without the whitespace at its end.
RECURSIVE WithoutTrailingSpace(_)
WithoutTrailingSpace(t) ==
    IF t # <<>> /\ t[Len(t)] = " " THEN WithoutTrailingSpace(SubSeq(t, 1, Len(t) - 1)) ELSE t

\* C13: every string passed to evaluation holds only digits, whitespace and
\* + - * / ( ) . and is the input with every other character removed, in
\* order; for '2+2*3; import os' the expression evaluated is 2+2*3 and the
\* reported result is 8.
C13_CalcSanitized ==
    cDone =>
        /\ \A k \in 1..Len(cEval) :
             /\ \A j \in 1..Len(cEval[k]) : cEval[k][j] \in ClaimedAllowed
             /\ cEval[k] = WithoutDisallowed(cExpr)
        /\ cExpr = ExampleExpr =>
             /\ Len(cEval) = 1
             /\ WithoutTrailingSpace(cEval[1]) = <<"2", "+", "2", "*", "3">>
             /\ cReply = [kind |-> "result", value |-> 8]

\* The example was evaluated after characters had been removed from it.
C13_Witness ==
    /\ cDone /\ cExpr = ExampleExpr
    /\ Len(cEval) = 1 /\ Len(cEval[1]) < Len(cExpr)
    /\ cReply.value = 8

\* The <integer><unit> terms of a text, each given by the positions of its
\* first digit and of its unit letter: a maximal run of digits directly
\* followed by one of the unit letters.
TermsOf(t, units) ==
    {<<a, b>> \in (1..Len(t)) \X (1..Len(t)) :
        /\ a < b
        /\ \A k \in a..(b - 1) : t[k] \in Digits
        /\ t[b] \in units
        /\ (a = 1 \/ t[a - 1] \notin Digits)}

ClaimedUnitSeconds == [d |-> 86400, h |-> 3600, m |-> 60, s |-> 1]

RECURSIVE SumOfTerms(_, _)
SumOfTerms(t, terms) ==
    IF terms = {} THEN 0
    ELSE LET x == CHOOSE y \in terms : TRUE IN
         LiteralValue(SubSeq(t, x[1], x[2] - 1)) * ClaimedUnitSeconds[Lower(t[x[2]])]
             + SumOfTerms(t, terms \ {x})

\* C14 (as claimed): the result is the sum, in seconds, of the
\* <integer><unit> terms of the string, unit in {s, m, h, d}, and it is None
\* exactly for the strings that have no such term.
C14_DurationIsSumOfTerms ==
    durDone =>
        LET terms == TermsOf(durStr, {"s", "m", "h", "d"}) IN
        IF terms = {} THEN durResult = NoDuration
        ELSE durResult = SumOfTerms(durStr, terms)

\* C14 (amended): the unit letters count in either case, and the result is
\* None for the strings that have no term and for those whose terms sum to
\* zero; for every other string it is the sum of the terms in seconds.
C14_DurationIsPositiveSumOfTerms ==
    durDone =>
        LET terms == TermsOf(durStr, {"s", "m", "h", "d", "S", "M", "H", "D"}) IN
        IF terms = {} \/ SumOfTerms(durStr, terms) = 0 THEN durResult = NoDuration
        ELSE durResult = SumOfTerms(durStr, terms)

\* '1h30m' was parsed to 5400 seconds.
C14_Witness ==
    /\ durDone
    /\ durStr = <<"1", "h", "3", "0", "m">>
    /\ durResult = 5400

\* The chat is a group or a supergroup, the capability query succeeded and
\* every required capability is present.
GateConditionsMet(m) ==
    /\ m.chat_type \in {"group", "supergroup", "ChatType.GROUP", "ChatType.SUPERGROUP"}
    /\ m.outcome = "member"
    /\ \A c \in m.required : c \in m.granted

\* C15: the wrapped handler is invoked, once, iff the chat is a group or a
\* supergroup, the capability query succeeds and every required capability
\* is present; otherwise it is not invoked and the gate makes exactly one
\* reply; on success the gate makes none.
C15_GateInvokesIffPermitted ==
    gDone =>
        /\ gInvoked = (IF GateConditionsMet(gMsg) THEN 1 ELSE 0)
        /\ gReplies = (IF GateConditionsMet(gMsg) THEN 0 ELSE 1)

\* C16: when the process is restarted, the in-memory AFK state loaded at
\* startup is the persisted one: Active with the persisted reason and start
\* time if the stored row says Active, Inactive if it says Inactive.
C16_RestartRestoresPersisted ==
    [][Restart =>
          (afkRow.exists =>
              /\ AFK_STATUS'.is_afk = afkRow.is_afk
              /\ AFK_STATUS'.reason = afkRow.reason
              /\ AFK_STATUS'.start_time = afkRow.start_time)]_vars

\* C17: no exception leaves a command handler, and a handler in which a step
\* failed has made exactly one edit or send that reports the failure.
C17_NoErrorEscapes ==
    hDone =>
        /\ ~hEscaped
        /\ hFailed => hFailureMsgs = 1

\* C18: an item whose send attempt failed with an exception other than
\* Forbidden is still not delivered in storage when the poll cycle ends, and
\* it is attempted again in the next poll cycle of its loop.
C18_FailedIsRetried == ~remMissed /\ ~schMissed

\* C19: an item whose send attempt failed with Forbidden keeps its pending
\* delivered flag until the end of the poll cycle and is then committed as
\* delivered (so that no later cycle selects it).
C19_Step ==
    /\ \A i \in RemIds :
         (i \in remSess /\ remSent[i] = 0) => (i \in remSess' \/ ~remDb'[i].is_active)
    /\ \A i \in SchIds :
         (i \in schSess /\ schSent[i] = 0) => (i \in schSess' \/ schDb'[i].is_sent)

C19_ForbiddenIsGivenUp == [][C19_Step]_vars

\* C20: the send failure of one item, of any kind, does not stop the loop:
\* every other due item of the cycle stays to be attempted, every item sent
\* in the cycle keeps its pending delivered flag, and the end of the cycle
\* commits every pending flag.
C20_Step ==
    /\ \A i \in RemIds, o1 \in SendOutcomes, o2 \in SendOutcomes :
         (ReminderSend(i, o1, o2) /\ ReminderSendResult(remDb[i].message_id, o1, o2) # "ok") =>
             /\ remTodo \ {i} \subseteq remTodo'
             /\ \A j \in remSess : remSent[j] > 0 => j \in remSess'
    /\ \A i \in SchIds, o \in SendOutcomes :
         (ScheduledSend(i, o) /\ o # "ok") =>
             /\ schTodo \ {i} \subseteq schTodo'
             /\ \A j \in schSess : schSent[j] > 0 => j \in schSess'
    /\ ReminderCommit => \A j \in remSess : ~remDb'[j].is_active
    /\ ScheduledCommit => \A j \in schSess : schDb'[j].is_sent

C20_FailureDoesNotStopLoop == [][C20_Step]_vars

\* C21: under fair scheduling of the two loops every Reminder and every
\* ScheduledMessage that is due is eventually marked delivered, whatever the
\* outcomes of the sends are.
C21_DueEventuallyDelivered ==
    /\ \A i \in RemIds : (remDb[i].remind_time <= utcnow) ~> ~remDb[i].is_active
    /\ \A i \in SchIds : (schDb[i].send_time <= utcnow) ~> schDb[i].is_sent

\* C22: of two afk_reply_handler invocations for messages of the same
\* counterpart, less than the cooldown apart, one of which ran its check
\* while the other was suspended at reply_text, at most one passed the
\* cooldown check (and so at most one sends a reply).
C22_AtMostOnePasses ==
    \A h \in ReplyHandlers, g \in ReplyHandlers :
        (/\ <<h, g>> \in arOverlap
         /\ arFrom[h] = arFrom[g]
         /\ arStart[h] - arStart[g] < AFK_MESSAGE_COOLDOWN)
        => ~(arPassed[h] /\ arPassed[g])

C22_Witness ==
    \E h \in ReplyHandlers, g \in ReplyHandlers :
        /\ <<h, g>> \in arOverlap
        /\ arFrom[h] = arFrom[g]
        /\ arPassed[g] /\ ~arPassed[h]
        /\ arPc[h] = "done" /\ arPc[g] = "done" /\ arSent[g]

\* C23: get_target_user_id never raises, and when the message has no reply
\* with a sender and its first argument is neither an integer nor a handle
\* that get_users resolves, whatever error the lookup gives, the result is
\* None.
C23_TargetNeverRaises ==
    tgDone =>
        /\ tgResult.kind # "raised"
        /\ (/\ tgMsg.reply # "from_user"
            /\ tgMsg.arg # "integer"
            /\ ~(tgMsg.arg = "handle" /\ tgMsg.lookup = "user"))
           => tgResult = ReturnedNone

\* The conversations the claim names: groups, supergroups and channels in
\* which the account holds can_restrict_members.
ClaimedBanTargets(c) ==
    {d \in Dialogs :
        /\ c.type[d] \in {"group", "supergroup", "channel",
                          "ChatType.GROUP", "ChatType.SUPERGROUP", "ChatType.CHANNEL"}
        /\ c.rights[d] = "granted"}

\* C24: a gban whose own messages go through records the target in the
\* blacklist, attempts the ban in every group, supergroup and channel of the
\* account where it holds can_restrict_members, whatever the outcomes in the
\* other conversations, and does not end as a failure.
C24_GbanAttemptsEverywhere ==
    (gbDone /\ gbCmd.edit = "ok" /\ gbCmd.reply = "ok") =>
        /\ gbBlacklist
        /\ gbAttempts = ClaimedBanTargets(gbCmd)
        /\ ~gbFailed

\* A token of the form <integer><unit>.
IsDurationToken(tok) ==
    /\ Len(tok) >= 2
    /\ \A k \in 1..(Len(tok) - 1) : tok[k] \in Digits
    /\ Lower(tok[Len(tok)]) \in {"s", "m", "h", "d"}

\* C25: for ban and mute with a resolved target, when the token after the
\* target is a recognized duration the restriction is applied until now +
\* that duration and the tokens after it form the reason; otherwise it is
\* applied permanently and all remaining tokens form the reason.
C25_DurationThenReason ==
    rsDone =>
        LET toks == rsCmd.tokens IN
        IF toks # <<>> /\ IsDurationToken(toks[1])
        THEN /\ rsCall = [called |-> TRUE, until_date |-> rsCmd.now + ParseTimeDuration(toks[1])]
             /\ rsReason = Tail(toks)
        ELSE /\ rsCall = [called |-> TRUE, until_date |-> NoTime]
             /\ rsReason = toks

\* C29: when ban or mute makes its transport call, the command message is
\* edited with the success text iff the call succeeded and with an error
\* text iff it failed.
C29_ReportMatchesOutcome ==
    (rsDone /\ rsCall.called) =>
        /\ (rsReport = "success") <=> (rsCmd.call = "ok")
        /\ (rsReport = "error") <=> (rsCmd.call # "ok")

\* C26: '.remind <duration> <text>' and '.scheduled <duration> <text>' with
\* a valid duration create exactly one row, not delivered, due at creation
\* time + duration and carrying the text, and edit the command message with
\* one confirmation; with an invalid duration they create no row.
C26_CreatesOneRow ==
    (crDone /\ crCmd.words >= 3) =>
        IF ParseTimeDuration(crCmd.duration) # NoDuration
        THEN /\ crRows = {[due |-> crCmd.now + ParseTimeDuration(crCmd.duration),
                           text |-> crCmd.text, delivered |-> FALSE]}
             /\ crEdits = <<"confirmation">>
        ELSE crRows = {}

\* C27: when the process stops during a poll cycle, every item that has been
\* sent is marked delivered in storage, so that no item sent before the stop
\* is selected and sent again after the start.
C27_Step ==
    ProcessStops =>
        /\ \A i \in RemIds : remSent[i] > 0 => ~remDb[i].is_active
        /\ \A i \in SchIds : schSent[i] > 0 => schDb[i].is_sent

C27_NoSentUnmarkedAcrossRestart == [][C27_Step]_vars

\* C28: whenever no .afk handler is in flight, the stored AFKState row of
\* the owner agrees with AFK_STATUS on is_afk, reason and start_time (no row
\* standing for the inactive state).
C28_RowAgreesWithStatus ==
    afkInflight = <<>> =>
        /\ afkRow.is_afk = AFK_STATUS.is_afk
        /\ afkRow.reason = AFK_STATUS.reason
        /\ afkRow.start_time = AFK_STATUS.start_time

\* C30: in every reachable storage state there is at most one ChatSetting
\* row per (chat_id, key), whatever the interleaving of the setwelcome,
\* antilink and antiflood commands; a repeated write changes the existing
\* row, and the stored value is that of the last committed write.
C30_OneRowPerKey ==
    /\ \A i, j \in 1..Len(csRows) :
         (csRows[i].chat_id = csRows[j].chat_id /\ csRows[i].key = csRows[j].key) => i = j
    /\ \A p \in SettingChats \X SettingKeys :
         IF csLast[p].writes = 0
         THEN \A i \in 1..Len(csRows) : <<csRows[i].chat_id, csRows[i].key>> # p
         ELSE \E i \in 1..Len(csRows) :
                  /\ <<csRows[i].chat_id, csRows[i].key>> = p
                  /\ csRows[i].value = csLast[p].value

C30_Witness ==
    \E p \in SettingChats \X SettingKeys :
        /\ csLast[p].writes = 2
        /\ csLast[p].value = "off"
        /\ Len(csRows) = 1
        /\ csRows[1].value = "off"
        /\ csInflight = <<>>

====
